---------------------------- MODULE Spec2Model ----------------------------
(***************************************************************************)
(* Model of the YouTube extraction core of Info_AI_Studio:                 *)
(*   - YouTubeExtractor._extract_from_videos_tab  (videos-tab discovery)   *)
(*   - YouTubeExtractor.fetch_transcript_text     (transcript cascade)     *)
(*   - LLMClient.summarise and its translation chain                       *)
(*   - YouTubeExecutionService.run                (the orchestrator)       *)
(* Each component is a state machine of its own with its own initial       *)
(* predicate and next-state relation; the variables of the components      *)
(* that are not running stay at their idle values.                         *)
(***************************************************************************)
EXTENDS Integers, Sequences, FiniteSets, TLC

VARIABLES
    \* ---- _extract_from_videos_tab
    max_age_days,       \* parameter: None or a number of days
    max_videos,         \* parameter: None or a count
    videos,             \* the local list `videos` (accepted stubs)
    stop,               \* the local flag `stop`
    token,              \* the local `token` / `continuation_token`
    tabPc,              \* position of the call
    tabResult,          \* what the call returned ("pending" before it returns)
    listing,            \* history: grid items received so far, in listing order
    failure,            \* history: how the last continuation request failed
    \* ---- fetch_transcript_text
    preferred_langs,    \* parameter (the default list when the caller gives none)
    all_transcripts,    \* the local list `all_transcripts` (the caption tracks)
    trPc,               \* position of the call in the cascade
    trStep,             \* index of the current loop iteration
    trResult,           \* the text returned ("pending" before the return)
    finds,              \* history: the find_*_transcript calls, in order
    fetchCalls,         \* history: number of tr.fetch() calls
    translateCalls,     \* history: number of tr.translate("pt") calls
    legacyResults,      \* history: what each _fetch_transcript_ytdlp call returned
    firstText,          \* history: the first non-empty text a native fetch returned
    firstAt,            \* history: the cascade step (trPc) of that fetch
    blockedAt,          \* history: the step at which an access-blocked error was raised
    analysis_source,    \* the tag _obter_transcricao returns with the text ("none" before)
    \* ---- LLMClient.summarise
    transcript,         \* parameter: "blank", "short" or "long" (after strip)
    title,              \* parameter: "blank" or "short"
    active,             \* LLMClient.active (a provider client exists)
    translate_mode,     \* translate_normalized: "pt-br" or "original"
    index,              \* the loop's `index` + 1 (next attempt), 1..8
    llmPc,              \* position of the call
    summary,            \* the LLMResult being built / translated
    fieldIdx,           \* the field _translate_fields_individually is at, 1..5
    llmResult,          \* what summarise returned
    requests,           \* history: the _request_completion calls, in order
    goodAt,             \* history: first attempt answered with a usable JSON object
    stubOk,             \* history: every answer so far is one the shrink-scenario stub gives
    bulkOutcome,        \* history: "none", "ok" or "failed"
    jsonFailed,         \* history: fields whose JSON translation request failed
    onlyErrors,         \* history: every summary answer so far was an error or empty
    nonObjectSeen,      \* history: an answer has parsed to a JSON value that is no object
    \* ---- YouTubeExecutionService.run
    channels,           \* the resolved channel list (normalized, no duplicates)
    mode,               \* config.mode: "full" or "simple"
    no_llm,             \* config.no_llm
    asr_enabled,        \* config.asr_enabled
    asr_provider,       \* config.asr_provider
    tmp_dirs,           \* the temporary audio directories that exist
    channel_index,      \* `index` of the channel loop, from 1
    v_index,            \* `v_index` of the video loop, from 1
    run_videos,         \* the local `videos` of the current channel
    enriched_videos,    \* the local list `enriched_videos`
    channel_payload,    \* the list `channel_payload`
    total_videos,       \* the counter `total_videos`
    runPc,              \* position of the run
    runResult,          \* the YouTubeExtractionResult returned
    calls,              \* history: calls made to the extractor and the LLM client
    infoErrors,         \* history: channels whose info status was not "success"
    raisedIn,           \* history: the call whose exception ended the run
    notifications,      \* history: the messages handed to _notify, in order
    token_details,      \* one entry per processed video
    channel_tokens,     \* one entry per closed channel
    prompt_tokens_channel,      \* the accumulators of the channel in hand
    completion_tokens_channel,
    total_prompt_tokens,
    total_completion_tokens,
    cancelled,          \* the caller has signalled that the run is to stop
    startedCancelled,   \* history: what was started after that signal
    \* ---- _extract_usage_numbers
    usage,              \* the argument: the usage record of a response
    usagePc,            \* position of the call
    usage_numbers,      \* the pair (prompt_tokens, completion_tokens) returned
    \* ---- the registries (llm_service, fonte_service, repositories)
    regTable,           \* the registry the calls of this behaviour go to
    modelo_llm,         \* table modelo_llm: a set of rows
    fonte_youtube,      \* table fonte_youtube
    fonte_web,          \* table fonte_web
    lastOp,             \* history: the last call, its arguments and how it ended
    \* ---- ui_helpers.paginate
    pg_items,           \* the argument items: the list to show
    pg_size,            \* size: the page size in force
    session_state,      \* st.session_state[page_key], when it is there
    stored_page,        \* history: the page index stored when paginate was called
    pgPc,               \* position of the call
    pgResult            \* the tuple returned

tabVars == <<max_age_days, max_videos, videos, stop, token, tabPc, tabResult,
             listing, failure>>

trVars == <<preferred_langs, all_transcripts, trPc, trStep, trResult, finds,
            fetchCalls, translateCalls, legacyResults, firstText, firstAt, blockedAt,
           analysis_source>>

llmVars == <<transcript, title, active, translate_mode, index, llmPc, summary,
             fieldIdx, llmResult, requests, goodAt, stubOk, bulkOutcome, jsonFailed, onlyErrors,
             nonObjectSeen>>

tokenVars == <<token_details, channel_tokens, prompt_tokens_channel,
               completion_tokens_channel, total_prompt_tokens,
               total_completion_tokens>>

runVars == <<channels, mode, no_llm, asr_enabled, asr_provider, tmp_dirs,
             channel_index, v_index,
             run_videos, enriched_videos, channel_payload, total_videos, runPc,
             runResult, calls, infoErrors, raisedIn, notifications,
             cancelled, startedCancelled, tokenVars>>

usageVars == <<usage, usagePc, usage_numbers>>

regVars == <<regTable, modelo_llm, fonte_youtube, fonte_web, lastOp>>

pgVars == <<pg_items, pg_size, session_state, stored_page, pgPc, pgResult>>

vars == <<tabVars, trVars, llmVars, runVars, usageVars, regVars, pgVars>>

\* a step of one component leaves the other components alone
TabOnly == UNCHANGED <<trVars, llmVars, runVars, usageVars, regVars, pgVars>>

TrOnly == UNCHANGED <<tabVars, llmVars, runVars, usageVars, regVars, pgVars>>

LlmOnly == UNCHANGED <<tabVars, trVars, runVars, usageVars, regVars, pgVars>>

RunOnly == UNCHANGED <<tabVars, trVars, llmVars, usageVars, regVars, pgVars>>

UsageOnly == UNCHANGED <<tabVars, trVars, llmVars, runVars, regVars, pgVars>>

RegOnly == UNCHANGED <<tabVars, trVars, llmVars, runVars, usageVars, pgVars>>

PgOnly == UNCHANGED <<tabVars, trVars, llmVars, runVars, usageVars, regVars>>

\* Python's None for an optional number or an optional token
None == 0 - 1

(***************************************************************************)
(*                    Bounds of the model                                  *)
(***************************************************************************)
\* longest page (grid items of one response) the endpoint answers with
MaxPageLen == 2
\* grid items over all continuation pages of one call
MaxListing == 3
\* largest max_videos tried
MaxVideosOpt == 2
\* caption tracks of one video
MaxTracks == 2
\* videos one channel listing gives the run
MaxRunVideos == 2
\* largest token count in a usage record
MaxTokens == 2
\* largest record id of a registry table
MaxRecords == 2
\* longest list handed to paginate
MaxItems == 4
\* largest page size
MaxPageSize == 3
\* largest page index stored in the session state
MaxStoredPage == 5

Min(a, b) == IF a < b THEN a ELSE b

\* the pair of token counts _extract_usage_numbers returns and LLMResult keeps
UsageNumbers(p, c) == [prompt_tokens |-> p, completion_tokens |-> c]

(***************************************************************************)
(*      _parse_relative_time and the age computation of push_video         *)
(***************************************************************************)
\* A relative publish text: a number and a unit, or a text no pattern matches.
NoRel == [n |-> 0, unit |-> "none"]

Rel(n, unit) == [n |-> n, unit |-> unit]

\* hours subtracted from "now" for a matched pattern; None when nothing matches
ParseRelativeTime(rel) ==
    CASE rel.unit = "hour" -> rel.n
      [] rel.unit = "day"  -> 24 * rel.n
      [] rel.unit = "week" -> 24 * 7 * rel.n
      [] OTHER -> None

\* (datetime.utcnow() - published_dt).days
AgeDays(published) == published \div 24

(***************************************************************************)
(*                     Items of a videos-tab page                          *)
(***************************************************************************)
Shelf == [kind |-> "shelf", videoId |-> FALSE, live |-> FALSE,
          upcoming |-> FALSE, rel |-> NoRel]

Renderer(hasId, live, upcoming, rel) ==
    [kind |-> "renderer", videoId |-> hasId, live |-> live,
     upcoming |-> upcoming, rel |-> rel]

Aged(n) == Renderer(TRUE, FALSE, FALSE, Rel(n, "day"))

ItemAlphabet ==
    { Shelf,
      Renderer(FALSE, FALSE, FALSE, Rel(2, "week")),   \* no videoId
      Renderer(TRUE, TRUE, FALSE, Rel(3, "hour")),     \* LIVE badge
      Renderer(TRUE, FALSE, TRUE, NoRel),              \* upcomingEventData
      Renderer(TRUE, FALSE, FALSE, NoRel),             \* unparseable text
      Renderer(TRUE, FALSE, FALSE, Rel(30, "hour")),   \* 1 day old
      Aged(2),
      Renderer(TRUE, FALSE, FALSE, Rel(1, "week")) }   \* 7 days old

\* the page of the age-filter scenario: ages 1, 2, 3, 10, 4 days
ScenarioPage == <<Aged(1), Aged(2), Aged(3), Aged(10), Aged(4)>>

PagesUpTo(n) == UNION { [1..k -> ItemAlphabet] : k \in 0..n }

(***************************************************************************)
(*                            push_video                                   *)
(***************************************************************************)
Stub(pos, vr) == [id |-> pos, published_relative |-> vr.rel]

\* The accepted list after push_video(vr), and its return value (`go`: keep
\* scanning).  pos is the item's place in the listing, used as its video id.
PushVideoSkipOld(vs, vr, pos, maxAge, maxVids) ==
    LET published == ParseRelativeTime(vr.rel) IN
    IF ~vr.videoId THEN [videos |-> vs, go |-> TRUE]
    ELSE IF vr.live \/ vr.upcoming THEN [videos |-> vs, go |-> TRUE]
    ELSE IF maxAge # None /\ published = None THEN [videos |-> vs, go |-> TRUE]
    ELSE IF maxAge # None /\ AgeDays(published) > maxAge
         THEN [videos |-> vs, go |-> TRUE]
    ELSE LET out == Append(vs, Stub(pos, vr)) IN
         [videos |-> out, go |-> ~(maxVids # None /\ Len(out) >= maxVids)]

\* a push_video that stops the scan at a video whose age cannot be parsed
PushVideoStopUndated(vs, vr, pos, maxAge, maxVids) ==
    LET published == ParseRelativeTime(vr.rel) IN
    IF ~vr.videoId THEN [videos |-> vs, go |-> TRUE]
    ELSE IF vr.live \/ vr.upcoming THEN [videos |-> vs, go |-> TRUE]
    ELSE IF maxAge # None /\ published = None THEN [videos |-> vs, go |-> FALSE]
    ELSE IF maxAge # None /\ AgeDays(published) > maxAge
         THEN [videos |-> vs, go |-> FALSE]
    ELSE LET out == Append(vs, Stub(pos, vr)) IN
         [videos |-> out, go |-> ~(maxVids # None /\ Len(out) >= maxVids)]

PushVideo(vs, vr, pos, maxAge, maxVids) ==
    LET published == ParseRelativeTime(vr.rel) IN
    IF ~vr.videoId THEN [videos |-> vs, go |-> TRUE]
    ELSE IF vr.live \/ vr.upcoming THEN [videos |-> vs, go |-> TRUE]
    ELSE IF maxAge # None /\ published = None THEN [videos |-> vs, go |-> TRUE]
    ELSE IF maxAge # None /\ AgeDays(published) > maxAge
         THEN [videos |-> vs, go |-> FALSE]
    ELSE LET out == Append(vs, Stub(pos, vr)) IN
         [videos |-> out, go |-> ~(maxVids # None /\ Len(out) >= maxVids)]

\* The `for item in contents/items` loop with its break: items i.. of a page
\* whose first item has listing position base + 1.
RECURSIVE ScanItems(_, _, _, _, _, _)
ScanItems(items, i, base, vs, maxAge, maxVids) ==
    IF i > Len(items) THEN [videos |-> vs, stop |-> FALSE]
    ELSE IF items[i].kind = "shelf"
         THEN ScanItems(items, i + 1, base, vs, maxAge, maxVids)
    ELSE LET r == PushVideo(vs, items[i], base + i, maxAge, maxVids) IN
         IF ~r.go THEN [videos |-> r.videos, stop |-> TRUE]
         ELSE ScanItems(items, i + 1, base, r.videos, maxAge, maxVids)


(***************************************************************************)
(*                  Answers of the continuation endpoint                   *)
(***************************************************************************)
\* What one POST to youtubei/v1/browse can bring back.
\*   network   : session.post raises
\*   non200    : resp.status_code != 200
\*   notjson   : resp.json() raises
\*   array     : the body is a JSON array            (data.get raises)
\*   noActions : an object without onResponseReceivedActions
\*   emptyActions : "onResponseReceivedActions": [] ([0] raises)
\*   nullAppend: "appendContinuationItemsAction": null (.get raises)
\*   items     : the expected structure, with its continuationItems
FailureKinds == {"network", "non200", "notjson", "array", "noActions",
                 "emptyActions", "nullAppend"}

Answer(kind, items, next) == [kind |-> kind, items |-> items, next |-> next]

Tokens == {1, 2}

\* What lines 294-310 make of an answer: "break" (leave the loop), "raise"
\* (an exception leaves the function) or "items" (the list to scan).
DecodeAnswer(a) ==
    CASE a.kind \in {"network", "non200", "notjson"} -> "break"
      [] a.kind \in {"array", "emptyActions", "nullAppend"} -> "raise"
      [] OTHER -> "items"

\* continuationItems of a decoded answer ({} gives the empty default)
ContinuationItems(a) == IF a.kind = "items" THEN a.items ELSE <<>>

\* the token of the answer's continuationItemRenderer, None without one
NextToken(a) == IF a.kind = "items" THEN a.next ELSE None

\* the condition of `while token and (max_videos is None or len(videos) < max_videos)`
WhileCond == token # None /\ (max_videos = None \/ Len(videos) < max_videos)

(***************************************************************************)
(*                 _extract_from_videos_tab: the actions                   *)
(***************************************************************************)
Pending == [status |-> "pending", videos |-> <<>>]

Returned(vs) == [status |-> "returned", videos |-> vs]

Raised == [status |-> "raised", videos |-> <<>>]

TabStart ==
    /\ max_age_days \in {None, 5}
    /\ max_videos \in {None} \cup (0..MaxVideosOpt)
    /\ videos = <<>>
    /\ stop = FALSE
    /\ token = None
    /\ tabPc = "start"
    /\ tabResult = Pending
    /\ listing = <<>>
    /\ failure = "none"

\* lines 148-171: the page cannot be fetched or holds no ytInitialData
FirstPageFails ==
    /\ tabPc = "start"
    /\ tabPc' = "done"
    /\ tabResult' = Returned(<<>>)
    /\ UNCHANGED <<max_age_days, max_videos, videos, stop, token, listing, failure>>
    /\ TabOnly

\* lines 173-277: the first page's contents are scanned; the continuation
\* loop is entered when the scan did not stop and the page carried a token
FirstPage ==
    /\ tabPc = "start"
    /\ \E contents \in PagesUpTo(MaxPageLen) \cup {ScenarioPage},
          continuation_token \in {None} \cup Tokens :
          LET r == ScanItems(contents, 1, 0, <<>>, max_age_days, max_videos) IN
          /\ videos' = r.videos
          /\ stop' = r.stop
          /\ token' = continuation_token
          /\ listing' = contents
          /\ IF ~r.stop /\ continuation_token # None
             THEN tabPc' = "paginate" /\ tabResult' = tabResult
             ELSE tabPc' = "done" /\ tabResult' = Returned(r.videos)
    /\ UNCHANGED <<max_age_days, max_videos, failure>>
    /\ TabOnly

\* lines 293-338: one iteration of the while loop, a POST and the scan of
\* its answer
ContinuationPost ==
    /\ tabPc = "paginate"
    /\ WhileCond
    /\ \E kind \in FailureKinds \cup {"items"},
          n \in 0..Min(MaxPageLen, MaxListing - Len(listing)),
          next \in {None} \cup Tokens :
       \E items \in [1..n -> ItemAlphabet] :
          LET a == Answer(kind, items, next)
              d == DecodeAnswer(a)
              r == ScanItems(ContinuationItems(a), 1, Len(listing), videos,
                             max_age_days, max_videos)
          IN
          /\ kind # "items" => n = 0 /\ next = None
          /\ failure' = IF kind = "items" THEN failure ELSE kind
          /\ CASE d = "break" ->
                   /\ tabPc' = "done"
                   /\ tabResult' = Returned(videos)
                   /\ UNCHANGED <<videos, stop, token, listing>>
               [] d = "raise" ->
                   /\ tabPc' = "done"
                   /\ tabResult' = Raised
                   /\ UNCHANGED <<videos, stop, token, listing>>
               [] OTHER ->
                   /\ videos' = r.videos
                   /\ stop' = r.stop
                   /\ token' = NextToken(a)
                   /\ listing' = listing \o ContinuationItems(a)
                   /\ IF r.stop \/ NextToken(a) = None
                      THEN tabPc' = "done" /\ tabResult' = Returned(r.videos)
                      ELSE tabPc' = "paginate" /\ tabResult' = tabResult
    /\ UNCHANGED <<max_age_days, max_videos>>
    /\ TabOnly

\* line 293: the while condition is false, the function returns `videos`
ExitLoop ==
    /\ tabPc = "paginate"
    /\ ~WhileCond
    /\ tabPc' = "done"
    /\ tabResult' = Returned(videos)
    /\ UNCHANGED <<max_age_days, max_videos, videos, stop, token, listing, failure>>
    /\ TabOnly

NextTab ==
    \/ FirstPageFails
    \/ FirstPage
    \/ ContinuationPost
    \/ ExitLoop

\* the component is not running
TabIdle ==
    /\ max_age_days = None /\ max_videos = None /\ videos = <<>>
    /\ stop = FALSE /\ token = None /\ tabPc = "idle"
    /\ tabResult = Pending /\ listing = <<>> /\ failure = "none"


(***************************************************************************)
(*             fetch_transcript_text: the transcript cascade               *)
(***************************************************************************)
\* A text: where it came from.  NoText is the empty string.
NoText == [src |-> "empty", lang |-> "", gen |-> FALSE]

NativeText(tr) == [src |-> "native", lang |-> tr.lang, gen |-> tr.gen]

TranslatedText(tr) == [src |-> "translated", lang |-> tr.lang, gen |-> tr.gen]

LegacyText == [src |-> "legacy", lang |-> "", gen |-> FALSE]

\* a caption track: its language code and whether it is auto-generated
Track(lang, gen) == [lang |-> lang, gen |-> gen]

TrackLangs == {"pt", "en", "es"}

Tracks == {Track(l, g) : l \in TrackLangs, g \in BOOLEAN}

\* the lists of distinct tracks the listing can return
TrackLists ==
    UNION { { t \in [1..k -> Tracks] : \A i, j \in 1..k : i # j => t[i] # t[j] }
            : k \in 0..MaxTracks }

\* line 599
DefaultLangs == <<"pt", "pt-BR", "pt-PT", "en">>

\* line 698: `preferred_langs + ["pt-BR", "pt-PT", "en"]`
LangList(langs) == langs \o <<"pt-BR", "pt-PT", "en">>

\* lines 698-716: iteration k of the language loop looks for the manual track
\* of the language first and for its generated track second
FindOrderGeneratedFirst(langs, k) ==
    Track(LangList(langs)[(k + 1) \div 2], k % 2 = 1)

FindOrder(langs, k) ==
    Track(LangList(langs)[(k + 1) \div 2], k % 2 = 0)

\* find_manually_created_transcript / find_generated_transcript succeed
Found(tr) == \E i \in 1..Len(all_transcripts) : all_transcripts[i] = tr

\* What tr.fetch() can do, and what _fetch_transcript_ytdlp can return.
FetchOutcomes == {"text", "empty", "error", "blocked"}

LegacyOutcomes == {LegacyText, NoText}

\* a _try_fetch that reports a blocked fetch like any other failed fetch
TryFetchBlockedGoesOn(o, text, l) ==
    CASE o = "text" -> [text |-> text, blocked |-> FALSE, legacy |-> <<>>]
      [] o = "blocked" -> [text |-> NoText, blocked |-> FALSE, legacy |-> <<>>]
      [] OTHER -> [text |-> NoText, blocked |-> FALSE, legacy |-> <<>>]

\* _try_fetch (lines 675-695) on a fetch with outcome o giving `text` when it
\* succeeds; l is what the legacy fallback returns if _try_fetch calls it.
\* Gives the pair (text, blocked) and the legacy calls made.
TryFetch(o, text, l) ==
    CASE o = "text" -> [text |-> text, blocked |-> FALSE, legacy |-> <<>>]
      [] o = "blocked" -> [text |-> l, blocked |-> (l = NoText), legacy |-> <<l>>]
      [] OTHER -> [text |-> NoText, blocked |-> FALSE, legacy |-> <<>>]

TrPending == [status |-> "pending", text |-> NoText]

TrReturned(text) == [status |-> "returned", text |-> text]

TrStart ==
    /\ preferred_langs \in {DefaultLangs, <<"pt", "en">>}
    /\ all_transcripts = <<>>
    /\ trPc = "start"
    /\ trStep = 0
    /\ trResult = TrPending
    /\ finds = <<>>
    /\ fetchCalls = 0
    /\ translateCalls = 0
    /\ legacyResults = <<>>
    /\ firstText = NoText
    /\ firstAt = "none"
    /\ blockedAt = "none"
    /\ analysis_source = "none"

TrIdle ==
    /\ preferred_langs = <<>> /\ all_transcripts = <<>> /\ trPc = "idle"
    /\ trStep = 0 /\ trResult = TrPending /\ finds = <<>> /\ fetchCalls = 0
    /\ translateCalls = 0 /\ legacyResults = <<>> /\ firstText = NoText
    /\ firstAt = "none" /\ blockedAt = "none" /\ analysis_source = "none"

\* lines 601-617: youtube_transcript_api cannot be imported
ImportFails ==
    /\ trPc = "start"
    /\ trPc' = "done"
    /\ trResult' = TrReturned(NoText)
    /\ UNCHANGED <<preferred_langs, all_transcripts, trStep, finds, fetchCalls,
                   translateCalls, legacyResults, firstText, firstAt, blockedAt>>
    /\ UNCHANGED analysis_source
    /\ TrOnly

\* `return self._fetch_transcript_ytdlp(video_id, preferred_langs)`
ReturnWithoutFallback(l) ==
    /\ legacyResults' = legacyResults
    /\ trResult' = TrReturned(NoText)
    /\ trPc' = "done"

ReturnLegacy(l) ==
    /\ legacyResults' = Append(legacyResults, l)
    /\ trResult' = TrReturned(l)
    /\ trPc' = "done"

\* lines 636-670: listing the tracks fails (blocked or otherwise) or gives
\* no track: the legacy fallback's result is returned
ListFails ==
    /\ trPc = "start"
    /\ \E how \in {"blocked", "error", "notracks"}, l \in LegacyOutcomes :
          /\ blockedAt' = IF how = "blocked" THEN "list" ELSE blockedAt
          /\ ReturnLegacy(l)
    /\ UNCHANGED <<preferred_langs, all_transcripts, trStep, finds, fetchCalls,
                   translateCalls, firstText, firstAt>>
    /\ UNCHANGED analysis_source
    /\ TrOnly

\* lines 636-673: the listing gives at least one track
ListTranscripts ==
    /\ trPc = "start"
    /\ \E tl \in TrackLists :
          /\ tl # <<>>
          /\ all_transcripts' = tl
    /\ trPc' = "langs"
    /\ trStep' = 1
    /\ UNCHANGED <<preferred_langs, trResult, finds, fetchCalls, translateCalls,
                   legacyResults, firstText, firstAt, blockedAt>>
    /\ UNCHANGED analysis_source
    /\ TrOnly

\* What the caller of _try_fetch does with its pair (lines 702-705 and
\* alike): return the text, return the legacy fallback's result when blocked,
\* or go on with `nextPc`, `nextStep`.  l2 is what that second legacy call
\* returns.
AfterTryFetch(r, o, text, l2, nextPc, nextStep) ==
    /\ fetchCalls' = fetchCalls + 1
    /\ firstText' = IF o = "text" /\ firstText = NoText THEN text ELSE firstText
    /\ firstAt' = IF o = "text" /\ firstText = NoText THEN trPc ELSE firstAt
    /\ blockedAt' = IF o = "blocked" THEN "fetch" ELSE blockedAt
    /\ IF r.text # NoText
       THEN /\ trResult' = TrReturned(r.text)
            /\ legacyResults' = legacyResults \o r.legacy
            /\ trPc' = "done"
            /\ trStep' = trStep
       ELSE IF r.blocked
       THEN /\ trResult' = TrReturned(l2)
            /\ legacyResults' = (legacyResults \o r.legacy) \o <<l2>>
            /\ trPc' = "done"
            /\ trStep' = trStep
       ELSE /\ trResult' = trResult
            /\ legacyResults' = legacyResults \o r.legacy
            /\ trPc' = nextPc
            /\ trStep' = nextStep

\* where the language loop goes after iteration trStep
AfterLangPc == IF trStep < 2 * Len(LangList(preferred_langs)) THEN "langs" ELSE "translate"

AfterLangStep == IF trStep < 2 * Len(LangList(preferred_langs)) THEN trStep + 1 ELSE 1

\* lines 698-716, one find of the language loop: the track is not there
\* (the find raises, `except Exception: pass`)
FindMisses ==
    /\ trPc = "langs"
    /\ LET tr == FindOrder(preferred_langs, trStep) IN
          /\ ~Found(tr)
          /\ finds' = Append(finds, tr)
    /\ trPc' = AfterLangPc
    /\ trStep' = AfterLangStep
    /\ UNCHANGED <<preferred_langs, all_transcripts, trResult, fetchCalls,
                   translateCalls, legacyResults, firstText, firstAt, blockedAt>>
    /\ UNCHANGED analysis_source
    /\ TrOnly

\* lines 698-716, one find of the language loop: the track is there and is
\* fetched
FindAndFetch ==
    /\ trPc = "langs"
    /\ LET tr == FindOrder(preferred_langs, trStep) IN
          /\ Found(tr)
          /\ finds' = Append(finds, tr)
          /\ \E o \in FetchOutcomes, l1 \in LegacyOutcomes, l2 \in LegacyOutcomes :
                AfterTryFetch(TryFetch(o, NativeText(tr), l1), o, NativeText(tr),
                              l2, AfterLangPc, AfterLangStep)
    /\ UNCHANGED <<preferred_langs, all_transcripts, translateCalls>>
    /\ UNCHANGED analysis_source
    /\ TrOnly

\* where the translation and as-is loops go after iteration trStep
AfterTrackPc(this, next) == IF trStep < Len(all_transcripts) THEN this ELSE next

AfterTrackStep == IF trStep < Len(all_transcripts) THEN trStep + 1 ELSE 1

\* lines 719-739: tr.translate("pt") raises; an access-blocked error returns
\* the legacy fallback's result, any other error goes to the next track
TranslateFails ==
    /\ trPc = "translate"
    /\ translateCalls' = translateCalls + 1
    /\ \E how \in {"unavailable", "blocked", "error"}, l \in LegacyOutcomes :
          IF how = "blocked"
          THEN /\ blockedAt' = "translate"
               /\ ReturnLegacy(l)
               /\ trStep' = trStep
          ELSE /\ trPc' = AfterTrackPc("translate", "asis")
               /\ trStep' = AfterTrackStep
               /\ UNCHANGED <<blockedAt, legacyResults, trResult>>
    /\ UNCHANGED <<preferred_langs, all_transcripts, finds, fetchCalls, firstText,
                   firstAt>>
    /\ UNCHANGED analysis_source
    /\ TrOnly

\* lines 719-726: the track is translated and the translation is fetched
TranslateAndFetch ==
    /\ trPc = "translate"
    /\ translateCalls' = translateCalls + 1
    /\ LET text == TranslatedText(all_transcripts[trStep]) IN
       \E o \in FetchOutcomes, l1 \in LegacyOutcomes, l2 \in LegacyOutcomes :
          AfterTryFetch(TryFetch(o, text, l1), o, text, l2,
                        AfterTrackPc("translate", "asis"), AfterTrackStep)
    /\ UNCHANGED <<preferred_langs, all_transcripts, finds>>
    /\ UNCHANGED analysis_source
    /\ TrOnly

\* lines 742-747: the tracks are fetched as they are
FetchAsIs ==
    /\ trPc = "asis"
    /\ LET text == NativeText(all_transcripts[trStep]) IN
       \E o \in FetchOutcomes, l1 \in LegacyOutcomes, l2 \in LegacyOutcomes :
          AfterTryFetch(TryFetch(o, text, l1), o, text, l2,
                        AfterTrackPc("asis", "final"), AfterTrackStep)
    /\ UNCHANGED <<preferred_langs, all_transcripts, finds, translateCalls>>
    /\ UNCHANGED analysis_source
    /\ TrOnly

\* lines 749-750: nothing was found, the legacy fallback's result is returned
FinalFallback ==
    /\ trPc = "final"
    /\ \E l \in LegacyOutcomes : ReturnLegacy(l)
    /\ UNCHANGED <<preferred_langs, all_transcripts, trStep, finds, fetchCalls,
                   translateCalls, firstText, firstAt, blockedAt>>
    /\ UNCHANGED analysis_source
    /\ TrOnly

(***************************************************************************)
(*          _obter_transcricao: the tag returned with the text             *)
(***************************************************************************)
\* _obter_transcricao (lines 409-440): the text found (or not) and its tag
Transcription(found, source) == [found |-> found, source |-> source]

\* lines 415-421: what it returns without the ASR fallback
ObterTranscricao(asr) ==
    { Transcription(TRUE, "transcricao_youtube") }
    \cup (IF asr THEN {} ELSE { Transcription(FALSE, "sem_transcricao") })

\* lines 423-440: what it returns from inside the temporary directory: no
\* audio, or the adapter's text (tagged with the adapter) or its empty output
AsrTranscricao(provider) ==
    { Transcription(FALSE, "sem_transcricao"),
      Transcription(TRUE, IF provider = "openai" THEN "asr_openai"
                          ELSE "asr_faster_whisper") }

\* lines 415-418: the tag of a text fetch_transcript_text returned
YouTubeTag(text) == "transcricao_youtube"

\* lines 409-440: _obter_transcricao returns the text of the cascade with its
\* tag; without a text it returns no text, or the ASR output when enabled
ObterTranscricaoReturns ==
    /\ trPc = "done"
    /\ analysis_source = "none"
    /\ \E asr \in BOOLEAN, provider \in {"openai", "faster-whisper"} :
       \E t \in (IF asr THEN AsrTranscricao(provider)
                 ELSE { Transcription(FALSE, "sem_transcricao") }) :
          analysis_source' = IF trResult.text # NoText
                             THEN YouTubeTag(trResult.text)
                             ELSE t.source
    /\ UNCHANGED <<preferred_langs, all_transcripts, trPc, trStep, trResult, finds,
                   fetchCalls, translateCalls, legacyResults, firstText, firstAt,
                   blockedAt>>
    /\ TrOnly

NextTr ==
    \/ ImportFails
    \/ ListFails
    \/ ListTranscripts
    \/ FindMisses
    \/ FindAndFetch
    \/ TranslateFails
    \/ TranslateAndFetch
    \/ FetchAsIs
    \/ FinalFallback
    \/ ObterTranscricaoReturns

(***************************************************************************)
(*                        LLMClient.summarise                              *)
(***************************************************************************)
\* line 210
ExcerptLimits == <<8000, 6000, 4000, 2500, 1500, 900, 600>>

\* A text field of an LLMResult: its size ("blank" when text.strip() is
\* empty, "long" above the 4000 characters of text[:4000]) and what produced
\* it: the summary itself ("orig"), the bulk, per-field JSON or plain-text
\* translation, or the cut text[:4000] of the original ("cut").
Sizes == {"blank", "short", "long"}

TextVal(size, tr) == [size |-> size, tr |-> tr]

\* The keyword list: "empty", "strings", "mixed" (a list with items that are
\* not strings); "null" stands for a JSON value list() cannot iterate.
KwVal(kind, tr) == [kind |-> kind, tr |-> tr]

TextFields == <<"resumo_uma_frase", "resumo", "assunto_principal", "resumo_em_topicos">>

AllFields == {"resumo_uma_frase", "resumo", "assunto_principal",
              "resumo_em_topicos", "palavras_chave"}

LLMResult(source, limit, f1, f2, f3, f4, kw, tokens) ==
    [source |-> source, limit |-> limit, resumo_uma_frase |-> f1, resumo |-> f2,
     assunto_principal |-> f3, resumo_em_topicos |-> f4, palavras_chave |-> kw,
     tokens |-> tokens]

Blank == TextVal("blank", "orig")

\* line 206: LLMResult("", "", "", [], "", 0, 0, self.model, 0.0)
EmptyResult ==
    LLMResult("empty", 0, Blank, Blank, Blank, Blank, KwVal("empty", "orig"), "zero")

NoResult ==
    LLMResult("none", 0, Blank, Blank, Blank, Blank, KwVal("empty", "orig"), "zero")

\* _heuristic_summary (lines 607-635): what it can give for a transcript and
\* a title.  The narrative summary is never blank; the one-line summary is
\* its first sentence cut to 280 characters; the topic outline lists the
\* keywords.
HeuristicResults ==
    { LLMResult("heuristic", 0, TextVal(one, "orig"), TextVal(res, "orig"),
                TextVal(title, "orig"),
                TextVal(IF kw = "empty" THEN "blank" ELSE "short", "orig"),
                KwVal(kw, "orig"), "zero")
      : one \in {"blank", "short"},
        res \in (IF transcript = "long" THEN {"short", "long"} ELSE {"short"}),
        kw \in {"empty", "strings"} }

\* The JSON object of an answer: the size of each text key's value (a missing
\* key reads as "") and the kind of the palavras_chave value.
Objects ==
    [resumo_uma_frase : Sizes, resumo : Sizes, assunto_principal : Sizes,
     resumo_em_topicos : Sizes, palavras_chave : {"empty", "strings", "mixed", "null"}]

NoObject ==
    [resumo_uma_frase |-> "blank", resumo |-> "blank", assunto_principal |-> "blank",
     resumo_em_topicos |-> "blank", palavras_chave |-> "empty"]

\* An answer of _request_completion to a summary prompt:
\*   kind  : "error" (it raises), "empty" (no content) or "content"
\*   truncated : finish_reason == "length"
\*   shape : what the content is - "fence_empty" (nothing left after
\*           _normalize_json_payload), "unparseable", "scalar" (a JSON
\*           number or string), "array_scalar" (an empty array or one whose
\*           first element is no object), "array_object", "object"
Resp(kind, truncated, shape, obj) ==
    [kind |-> kind, truncated |-> truncated, shape |-> shape, obj |-> obj]

Responses ==
    { Resp("error", FALSE, "none", NoObject), Resp("empty", FALSE, "none", NoObject) }
    \cup { Resp("content", t, sh, NoObject) :
             t \in BOOLEAN,
             sh \in {"fence_empty", "unparseable", "scalar", "array_scalar"} }
    \cup { Resp("content", t, sh, o) :
             t \in BOOLEAN, sh \in {"array_object", "object"}, o \in Objects }

\* a loop body that gives up at the first provider error or empty answer
ClassifyErrorBreaks(i, r) ==
    CASE r.kind = "error" -> "break"
      [] r.kind = "empty" -> "break"
      [] r.truncated /\ i < Len(ExcerptLimits) -> "continue"
      [] r.shape = "fence_empty" -> "break"
      [] r.shape = "unparseable" -> "break"
      [] r.shape \in {"scalar", "array_scalar"} -> "continue"
      [] r.obj.palavras_chave = "null" -> "raise"
      [] OTHER -> "return"

\* lines 223-299: what iteration i (1..7) of the loop does with an answer:
\* "continue", "break", "raise" (list(None) at line 290) or "return"
Classify(i, r) ==
    CASE r.kind = "error" -> "continue"
      [] r.kind = "empty" -> "continue"
      [] r.truncated /\ i < Len(ExcerptLimits) -> "continue"
      [] r.shape = "fence_empty" -> "break"
      [] r.shape = "unparseable" -> "break"
      [] r.shape \in {"scalar", "array_scalar"} -> "continue"
      [] r.obj.palavras_chave = "null" -> "raise"
      [] OTHER -> "return"

\* lines 286-296
BuildResult(i, o) ==
    LLMResult("llm", ExcerptLimits[i],
              TextVal(o.resumo_uma_frase, "orig"), TextVal(o.resumo, "orig"),
              TextVal(o.assunto_principal, "orig"),
              TextVal(o.resumo_em_topicos, "orig"),
              KwVal(o.palavras_chave, "orig"), "usage")

\* a request as the history keeps it
Request(kind, limit, field) == [mode |-> kind, limit |-> limit, field |-> field]

\* the answer is one the provider stub of the shrink scenario gives: "length"
\* for limits >= 2500, a valid JSON object at 1500
StubGives(i, r) ==
    IF ExcerptLimits[i] >= 2500 THEN r.kind = "content" /\ r.truncated
    ELSE IF ExcerptLimits[i] = 1500
         THEN /\ r.kind = "content" /\ ~r.truncated /\ r.shape = "object"
              /\ r.obj.palavras_chave \in {"empty", "strings"}
    ELSE TRUE

\* a usable answer: non-empty, not truncated, parsing to a JSON object
Usable(r) ==
    r.kind = "content" /\ ~r.truncated /\ r.shape = "object"

\* lines 277-285: the answer went through the parser and gave a JSON value
\* that is no object
NonObject(i, r) ==
    /\ r.kind = "content"
    /\ ~(r.truncated /\ i < Len(ExcerptLimits))
    /\ r.shape \in {"scalar", "array_scalar"}

LlmStart ==
    /\ transcript \in {"blank", "short", "long"}
    /\ title \in {"blank", "short"}
    /\ active \in BOOLEAN
    /\ translate_mode \in {"pt-br", "original"}
    /\ index = 1
    /\ llmPc = "start"
    /\ summary = NoResult
    /\ fieldIdx = 1
    /\ llmResult = NoResult
    /\ requests = <<>>
    /\ goodAt = 0
    /\ stubOk = TRUE
    /\ bulkOutcome = "none"
    /\ jsonFailed = {}
    /\ onlyErrors = TRUE
    /\ nonObjectSeen = FALSE

LlmIdle ==
    /\ transcript = "blank" /\ title = "blank" /\ active = FALSE
    /\ translate_mode = "original" /\ index = 1 /\ llmPc = "idle"
    /\ summary = NoResult /\ fieldIdx = 1 /\ llmResult = NoResult
    /\ requests = <<>>
    /\ goodAt = 0 /\ stubOk = TRUE /\ bulkOutcome = "none" /\ jsonFailed = {}
    /\ onlyErrors = TRUE
    /\ nonObjectSeen = FALSE

\* lines 297-299 and 309-311: translate when pt-br was asked for, and return
Finish(r) ==
    IF translate_mode = "pt-br"
    THEN llmPc' = "bulk" /\ summary' = r /\ llmResult' = llmResult
    ELSE llmPc' = "done" /\ summary' = r /\ llmResult' = r

\* lines 203-206: empty transcript
SummariseEmpty ==
    /\ llmPc = "start"
    /\ transcript = "blank"
    /\ llmPc' = "done"
    /\ summary' = EmptyResult
    /\ llmResult' = EmptyResult
    /\ UNCHANGED <<transcript, title, active, translate_mode, index, fieldIdx, requests,
                   goodAt, stubOk, bulkOutcome, jsonFailed>>
    /\ UNCHANGED <<onlyErrors, nonObjectSeen>>
    /\ LlmOnly

\* a summarise that asks the provider although no client is active
SummariseInactiveAsks ==
    /\ llmPc = "start"
    /\ transcript # "blank"
    /\ ~active
    /\ \E h \in HeuristicResults :
          /\ llmPc' = "done"
          /\ summary' = h
          /\ llmResult' = h
    /\ requests' = Append(requests, Request("summary", ExcerptLimits[1], ""))
    /\ UNCHANGED <<transcript, title, active, translate_mode, index, fieldIdx,
                   goodAt, stubOk, bulkOutcome, jsonFailed>>
    /\ UNCHANGED <<onlyErrors, nonObjectSeen>>
    /\ LlmOnly

\* lines 207-209: no provider client
SummariseInactive ==
    /\ llmPc = "start"
    /\ transcript # "blank"
    /\ ~active
    /\ \E h \in HeuristicResults :
          /\ llmPc' = "done"
          /\ summary' = h
          /\ llmResult' = h
    /\ UNCHANGED <<transcript, title, active, translate_mode, index, fieldIdx, requests,
                   goodAt, stubOk, bulkOutcome, jsonFailed>>
    /\ UNCHANGED <<onlyErrors, nonObjectSeen>>
    /\ LlmOnly

\* line 210-214: the loop is entered
EnterLoop ==
    /\ llmPc = "start"
    /\ transcript # "blank"
    /\ active
    /\ llmPc' = "loop"
    /\ UNCHANGED <<transcript, title, active, translate_mode, index, summary,
                   fieldIdx, llmResult, requests, goodAt, stubOk, bulkOutcome, jsonFailed>>
    /\ UNCHANGED <<onlyErrors, nonObjectSeen>>
    /\ LlmOnly

\* lines 214-299: one iteration of the loop, a summary request and the
\* handling of its answer
Attempt ==
    /\ llmPc = "loop"
    /\ index <= Len(ExcerptLimits)
    /\ requests' = Append(requests, Request("summary", ExcerptLimits[index], ""))
    /\ \E r \in Responses :
          LET c == Classify(index, r) IN
          /\ stubOk' = (stubOk /\ StubGives(index, r))
          /\ onlyErrors' = (onlyErrors /\ r.kind \in {"error", "empty"})
          /\ nonObjectSeen' = (nonObjectSeen \/ NonObject(index, r))
          /\ goodAt' = IF goodAt = 0 /\ Usable(r) THEN index ELSE goodAt
          /\ CASE c = "continue" ->
                   /\ index' = index + 1
                   /\ UNCHANGED <<llmPc, summary, llmResult>>
               [] c = "break" ->
                   /\ llmPc' = "heuristic"
                   /\ UNCHANGED <<index, summary, llmResult>>
               [] c = "raise" ->
                   /\ llmPc' = "raised"
                   /\ UNCHANGED <<index, summary, llmResult>>
               [] OTHER ->
                   /\ Finish(BuildResult(index, r.obj))
                   /\ index' = index
    /\ UNCHANGED <<transcript, title, active, translate_mode, fieldIdx, bulkOutcome,
                   jsonFailed>>
    /\ LlmOnly

\* line 214: the limits are used up
LoopExhausted ==
    /\ llmPc = "loop"
    /\ index > Len(ExcerptLimits)
    /\ llmPc' = "heuristic"
    /\ UNCHANGED <<transcript, title, active, translate_mode, index, summary,
                   fieldIdx, llmResult, requests, goodAt, stubOk, bulkOutcome, jsonFailed>>
    /\ UNCHANGED <<onlyErrors, nonObjectSeen>>
    /\ LlmOnly

\* lines 306-311: the heuristic summary after the loop
HeuristicFallback ==
    /\ llmPc = "heuristic"
    /\ \E h \in HeuristicResults : Finish(h)
    /\ UNCHANGED <<transcript, title, active, translate_mode, index, fieldIdx, requests,
                   goodAt, stubOk, bulkOutcome, jsonFailed>>
    /\ UNCHANGED <<onlyErrors, nonObjectSeen>>
    /\ LlmOnly

(***************************************************************************)
(*          LLMClient._translate_result_fields and its fallbacks           *)
(***************************************************************************)
\* lines 422-434: the result of a successful bulk translation whose JSON
\* object holds the keys `present`; a missing key keeps the original value
BulkText(v, field, present) ==
    IF field \in present THEN TextVal("short", "bulk") ELSE v

BulkKeywords(kw, present) ==
    IF "palavras_chave" \in present THEN KwVal("strings", "bulk")
    ELSE KwVal(IF kw.kind = "mixed" THEN "strings" ELSE kw.kind, kw.tr)

BulkResult(r, present) ==
    [r EXCEPT !.resumo_uma_frase = BulkText(@, "resumo_uma_frase", present),
              !.resumo = BulkText(@, "resumo", present),
              !.assunto_principal = BulkText(@, "assunto_principal", present),
              !.resumo_em_topicos = BulkText(@, "resumo_em_topicos", present),
              !.palavras_chave = BulkKeywords(@, present)]

\* a _translate_text_field that goes to the plain-text request at once
TranslateTextFieldNoJson(v, field, jsonOk, plainOk) ==
    IF v.size = "blank" THEN [value |-> v, made |-> <<>>]
    ELSE IF plainOk
         THEN [value |-> TextVal("short", "plain"),
               made |-> <<Request("field_text", 0, field)>>]
    ELSE [value |-> IF v.size = "long" THEN TextVal("short", "cut") ELSE v,
          made |-> <<Request("field_text", 0, field)>>]

\* _translate_text_field (lines 497-526) with _simple_translate_text (lines
\* 559-581): the value returned and the requests made, for the outcomes of
\* the JSON request and of the plain-text request
TranslateTextField(v, field, jsonOk, plainOk) ==
    IF v.size = "blank" THEN [value |-> v, made |-> <<>>]
    ELSE IF jsonOk
         THEN [value |-> TextVal("short", "json"),
               made |-> <<Request("field_json", 0, field)>>]
    ELSE IF plainOk
         THEN [value |-> TextVal("short", "plain"),
               made |-> <<Request("field_json", 0, field),
                          Request("field_text", 0, field)>>]
    ELSE [value |-> IF v.size = "long" THEN TextVal("short", "cut") ELSE v,
          made |-> <<Request("field_json", 0, field),
                     Request("field_text", 0, field)>>]

\* _translate_keywords (lines 528-557) with _simple_translate_keywords (lines
\* 583-605); ", ".join(keywords) raises on a list with non-string items
TranslateKeywords(kw, jsonOk, plainOk) ==
    IF kw.kind = "empty" THEN [value |-> kw, made |-> <<>>, raises |-> FALSE]
    ELSE IF jsonOk
         THEN [value |-> KwVal("strings", "json"),
               made |-> <<Request("field_json", 0, "palavras_chave")>>,
               raises |-> FALSE]
    ELSE IF kw.kind = "mixed"
         THEN [value |-> kw,
               made |-> <<Request("field_json", 0, "palavras_chave")>>,
               raises |-> TRUE]
    ELSE [value |-> IF plainOk THEN KwVal("strings", "plain") ELSE kw,
          made |-> <<Request("field_json", 0, "palavras_chave"),
                     Request("field_text", 0, "palavras_chave")>>,
          raises |-> FALSE]

\* lines 407-439: the bulk request; on failure the fields are translated one
\* by one
BulkTranslate ==
    /\ llmPc = "bulk"
    /\ requests' = Append(requests, Request("bulk", 0, ""))
    /\ \E ok \in BOOLEAN, present \in SUBSET AllFields :
          IF ok
          THEN /\ bulkOutcome' = "ok"
               /\ summary' = BulkResult(summary, present)
               /\ llmResult' = BulkResult(summary, present)
               /\ llmPc' = "done"
          ELSE /\ present = {}
               /\ bulkOutcome' = "failed"
               /\ llmPc' = "fields"
               /\ UNCHANGED <<summary, llmResult>>
    /\ UNCHANGED <<transcript, title, active, translate_mode, index, fieldIdx,
                   goodAt, stubOk, jsonFailed>>
    /\ UNCHANGED <<onlyErrors, nonObjectSeen>>
    /\ LlmOnly

\* lines 480-483: one _translate_text_field call
TranslateField ==
    /\ llmPc = "fields"
    /\ fieldIdx <= Len(TextFields)
    /\ \E jsonOk \in BOOLEAN, plainOk \in BOOLEAN :
          LET f == TextFields[fieldIdx]
              t == TranslateTextField(summary[f], f, jsonOk, plainOk)
          IN
          /\ summary' = [summary EXCEPT ![f] = t.value]
          /\ requests' = requests \o t.made
          /\ jsonFailed' = IF Len(t.made) > 0 /\ ~jsonOk
                           THEN jsonFailed \cup {f} ELSE jsonFailed
    /\ fieldIdx' = fieldIdx + 1
    /\ UNCHANGED <<transcript, title, active, translate_mode, index, llmPc,
                   llmResult, goodAt, stubOk, bulkOutcome>>
    /\ UNCHANGED <<onlyErrors, nonObjectSeen>>
    /\ LlmOnly

\* lines 484-495: _translate_keywords, then the translated result is returned
TranslateKeywordList ==
    /\ llmPc = "fields"
    /\ fieldIdx > Len(TextFields)
    /\ \E jsonOk \in BOOLEAN, plainOk \in BOOLEAN :
          LET t == TranslateKeywords(summary.palavras_chave, jsonOk, plainOk) IN
          /\ requests' = requests \o t.made
          /\ jsonFailed' = IF Len(t.made) > 0 /\ ~jsonOk
                           THEN jsonFailed \cup {"palavras_chave"} ELSE jsonFailed
          /\ IF t.raises
             THEN /\ llmPc' = "raised"
                  /\ UNCHANGED <<summary, llmResult>>
             ELSE /\ llmPc' = "done"
                  /\ summary' = [summary EXCEPT !.palavras_chave = t.value]
                  /\ llmResult' = [summary EXCEPT !.palavras_chave = t.value]
    /\ UNCHANGED <<transcript, title, active, translate_mode, index, fieldIdx,
                   goodAt, stubOk, bulkOutcome>>
    /\ UNCHANGED <<onlyErrors, nonObjectSeen>>
    /\ LlmOnly

NextLlm ==
    \/ SummariseEmpty
    \/ SummariseInactive
    \/ EnterLoop
    \/ Attempt
    \/ LoopExhausted
    \/ HeuristicFallback
    \/ BulkTranslate
    \/ TranslateField
    \/ TranslateKeywordList

(***************************************************************************)
(*                      YouTubeExecutionService.run                        *)
(***************************************************************************)
\* A channel identifier is a string, kept as the sequence of its characters.
ChannelIds == { <<"@", "a">>, <<"U", "C", "b">> }

\* what a configured entry, a line of the channels file or a registry row
\* can hold
RawChannels ==
    { <<>>, <<" ">>, <<"a">>, <<"@", "a">>, <<"@", "a", " ">>, <<"U", "C", "b">> }

FileLines == { <<>>, <<"#", "a">>, <<"a">>, <<"U", "C", "b">> }

\* str.strip
RECURSIVE Strip(_)
Strip(s) ==
    IF s = <<>> THEN s
    ELSE IF Head(s) = " " THEN Strip(Tail(s))
    ELSE IF s[Len(s)] = " " THEN Strip(SubSeq(s, 1, Len(s) - 1))
    ELSE s

\* str.startswith
StartsWith(s, prefix) ==
    Len(s) >= Len(prefix) /\ SubSeq(s, 1, Len(prefix)) = prefix

\* validators.normalize_channel_id
NormalizeChannelId(channel) ==
    LET c == Strip(channel)
    IN IF c # <<>> /\ ~StartsWith(c, <<"@">>) /\ ~StartsWith(c, <<"U", "C">>)
       THEN <<"@">> \o c
       ELSE c

\* lines 324-326: the configured entries that are not empty, normalised
RECURSIVE FromConfig(_)
FromConfig(raws) ==
    IF raws = <<>> THEN <<>>
    ELSE (IF Head(raws) # <<>> THEN <<NormalizeChannelId(Head(raws))>> ELSE <<>>)
         \o FromConfig(Tail(raws))

\* _load_channels_from_file (lines 342-354): blank lines and comments are
\* passed over
RECURSIVE LoadChannelsFromFile(_)
LoadChannelsFromFile(lines) ==
    IF lines = <<>> THEN <<>>
    ELSE (IF Strip(Head(lines)) = <<>> \/ StartsWith(Strip(Head(lines)), <<"#">>)
          THEN <<>>
          ELSE <<NormalizeChannelId(Strip(Head(lines)))>>)
         \o LoadChannelsFromFile(Tail(lines))

\* lines 333-339: duplicates removed, the order kept
RECURSIVE Dedup(_, _)
Dedup(chs, seen) ==
    IF chs = <<>> THEN <<>>
    ELSE IF Head(chs) \in seen THEN Dedup(Tail(chs), seen)
    ELSE <<Head(chs)>> \o Dedup(Tail(chs), seen \cup {Head(chs)})

\* line 331: the registry rows, normalised
NormalizeAll(rows) == [i \in 1..Len(rows) |-> NormalizeChannelId(rows[i])]

\* _resolve_channels (lines 320-340); file.exists is line 327
ResolveChannels(configured, file, registry) ==
    LET given == FromConfig(configured)
                 \o (IF file.exists THEN LoadChannelsFromFile(file.lines) ELSE <<>>)
    IN Dedup(IF given = <<>> THEN NormalizeAll(registry) ELSE given, {})

ConfiguredLists == { <<>> } \cup { <<r>> : r \in RawChannels }

ChannelFiles ==
    { [exists |-> FALSE, lines |-> <<>>] }
    \cup { [exists |-> TRUE, lines |-> ls] :
             ls \in { <<>> } \cup { <<l>> : l \in FileLines } }

Registries ==
    { <<>> } \cup { <<c>> : c \in {<<"a">>, <<"U", "C", "b">>} }
    \cup { <<c, d>> : c \in {<<"a">>, <<"@", "a">>}, d \in {<<"a">>, <<"U", "C", "b">>} }

\* the lists _resolve_channels can return
ChannelLists ==
    { ResolveChannels(c, f, r) :
         c \in ConfiguredLists, f \in ChannelFiles, r \in Registries }

\* a run that takes an empty channel list for a usable one
NoChannelResolvedNever(chs) == FALSE

\* line 81: not channels
NoChannelResolved(chs) == chs = <<>>

\* what extract_channel_info returns: a dict with a status
Infos == { [status |-> "success"], [status |-> "error"] }

\* a run whose channel loop goes on past a failed channel info all the same
InfoFailedNever(info) == FALSE

\* line 130: info.get("status") != "success"
InfoFailed(info) == info.status # "success"

\* the video stubs extract_recent_videos can return: each with or without an id
RunStub(pos, hasId) == [id |-> IF hasId THEN pos ELSE None]

RunVideoLists ==
    UNION { { [k \in 1..n |-> RunStub(k, f[k])] : f \in [1..n -> BOOLEAN] }
            : n \in 0..MaxRunVideos }

\* how extract_recent_videos can end: it returns the list, or an exception of
\* _extract_from_videos_tab goes through it (lines 139-144; it has no handler)
ListingAnswers == {"array", "emptyActions", "nullAppend", "page"}

ListingRaises(kind) == DecodeAnswer(Answer(kind, <<>>, None)) = "raise"

\* a temporary directory that outlives its `with` block
ExitTempDirKeeps(dirs, d) == dirs

\* line 423: leaving `with tempfile.TemporaryDirectory()` removes the directory
ExitTempDir(dirs, d) == dirs \ {d}

\* lines 132-137
ErrorEntry(channel) == [channel_id |-> channel, status |-> "error", videos |-> <<>>]

SuccessEntryWithoutVideos(channel, vs) ==
    [channel_id |-> channel, status |-> "success", videos |-> <<>>]

\* lines 253-263
SuccessEntry(channel, vs) == [channel_id |-> channel, status |-> "success", videos |-> vs]

\* lines 232-251: the record of one video
Enriched(id, t, hasSummary) ==
    [id |-> id, transcript_available |-> t.found, analysis_source |-> t.source,
     summary |-> hasSummary]

Call(op, channel, video) == [op |-> op, channel |-> channel, video |-> video]

NoRunResult ==
    [total_videos |-> 0, total_channels |-> 0, success_channels |-> 0,
     failed_channels |-> 0, returned |-> FALSE]

CountStatus(payload, st) ==
    Cardinality({ k \in 1..Len(payload) : payload[k].status = st })

\* lines 298-318
BuildRunResult(payload, total) ==
    [total_videos |-> total, total_channels |-> Len(payload),
     success_channels |-> CountStatus(payload, "success"),
     failed_channels |-> Len(payload) - CountStatus(payload, "success"),
     returned |-> TRUE]

\* the token counts of a summary: those of the provider's usage record
\* (llm_client.py lines 292-293), 0 and 0 for the heuristic summary (lines
\* 631-632)
SummaryTokens == { UsageNumbers(0, 0), UsageNumbers(1, 2) }

\* lines 219-230: the token entry of one video
TokenDetail(c, id, tk) ==
    [canal |-> c, video_id |-> id, tokens_entrada |-> tk.prompt_tokens,
     tokens_saida |-> tk.completion_tokens]

ChannelTokensSwapped(c, p, q) == [canal |-> c, tokens_entrada |-> q, tokens_saida |-> p]

\* lines 264-272: the token entry of one channel
ChannelTokens(c, p, q) == [canal |-> c, tokens_entrada |-> p, tokens_saida |-> q]

\* lines 115-119 and 155-156
NoTokens ==
    /\ token_details = <<>> /\ channel_tokens = <<>>
    /\ prompt_tokens_channel = 0 /\ completion_tokens_channel = 0
    /\ total_prompt_tokens = 0 /\ total_completion_tokens = 0

RunStart ==
    /\ channels \in ChannelLists
    /\ mode \in {"full", "simple"}
    /\ no_llm \in BOOLEAN
    /\ asr_enabled \in BOOLEAN
    /\ asr_provider \in (IF asr_enabled THEN {"openai", "faster-whisper"}
                          ELSE {"faster-whisper"})
    /\ tmp_dirs = {}
    /\ channel_index = 1
    /\ v_index = 1
    /\ run_videos = <<>>
    /\ enriched_videos = <<>>
    /\ channel_payload = <<>>
    /\ total_videos = 0
    /\ runPc = "start"
    /\ runResult = NoRunResult
    /\ calls = <<>>
    /\ infoErrors = {}
    /\ raisedIn = "none"
    /\ notifications = <<>>
    /\ cancelled = FALSE
    /\ startedCancelled = {}
    /\ NoTokens

RunIdle ==
    /\ channels = <<>> /\ mode = "simple" /\ no_llm = TRUE /\ asr_enabled = FALSE
    /\ asr_provider = "faster-whisper" /\ tmp_dirs = {}
    /\ channel_index = 1 /\ v_index = 1 /\ run_videos = <<>>
    /\ enriched_videos = <<>> /\ channel_payload = <<>> /\ total_videos = 0
    /\ runPc = "idle" /\ runResult = NoRunResult /\ calls = <<>>
    /\ infoErrors = {} /\ raisedIn = "none" /\ notifications = <<>>
    /\ cancelled = FALSE /\ startedCancelled = {}
    /\ NoTokens

\* a message handed to _notify: lines 83 ("selected"), 99 ("starting"),
\* 125 ("channel"), 150 ("listed"), 159 ("videos"), 170 ("video") and
\* 282 ("finished")
Message(kind, c, v) == [kind |-> kind, channel |-> c, video |-> v]

\* what has been started after the signal, once the loop starts one more
\* channel (line 123) or one more video (line 163): neither loop looks at
\* any signal
StartedNow(what, starts) ==
    IF starts /\ cancelled THEN startedCancelled \cup {what} ELSE startedCancelled

\* the caller signals, at any time of the run, that it is to stop; run
\* (lines 76-78) takes the progress callback and nothing else
SignalCancel ==
    /\ runPc \in {"channel", "videos", "asr"}
    /\ ~cancelled
    /\ cancelled' = TRUE
    /\ UNCHANGED <<channels, mode, no_llm, asr_enabled, asr_provider, tmp_dirs,
                   channel_index, v_index, run_videos, enriched_videos,
                   channel_payload, total_videos, runPc, runResult, calls,
                   infoErrors, raisedIn, notifications, startedCancelled>>
    /\ UNCHANGED tokenVars
    /\ RunOnly

\* lines 80-82: no channel resolved
NoChannels ==
    /\ runPc = "start"
    /\ NoChannelResolved(channels)
    /\ runPc' = "config_error"
    /\ UNCHANGED <<channels, mode, no_llm, asr_enabled, asr_provider, tmp_dirs, channel_index, v_index,
                   run_videos, enriched_videos, channel_payload, total_videos,
                   runResult, calls, infoErrors, raisedIn>>
    /\ UNCHANGED notifications
    /\ UNCHANGED startedCancelled
    /\ UNCHANGED cancelled
    /\ UNCHANGED tokenVars
    /\ RunOnly

\* lines 83-122: the first two messages are handed to _notify, the run is
\* set up and the channel loop entered
RunBegins ==
    /\ runPc = "start"
    /\ ~NoChannelResolved(channels)
    /\ runPc' = "channel"
    /\ UNCHANGED <<channels, mode, no_llm, asr_enabled, asr_provider, tmp_dirs, channel_index, v_index,
                   run_videos, enriched_videos, channel_payload, total_videos,
                   runResult, calls, infoErrors, raisedIn>>
    /\ notifications' = notifications \o <<Message("selected", 0, 0), Message("starting", 0, 0)>>
    /\ UNCHANGED startedCancelled
    /\ UNCHANGED cancelled
    /\ UNCHANGED tokenVars
    /\ RunOnly

\* lines 129-138: the channel info is not a success
ChannelFails ==
    /\ runPc = "channel"
    /\ channel_index <= Len(channels)
    /\ \E info \in Infos :
          /\ InfoFailed(info)
          /\ infoErrors' = IF info.status # "success"
                           THEN infoErrors \cup {channels[channel_index]}
                           ELSE infoErrors
    /\ calls' = Append(calls, Call("extract_channel_info", channels[channel_index], 0))
    /\ channel_payload' = Append(channel_payload, ErrorEntry(channels[channel_index]))
    /\ channel_index' = channel_index + 1
    /\ UNCHANGED <<channels, mode, no_llm, asr_enabled, asr_provider, tmp_dirs, v_index, run_videos,
                   enriched_videos, total_videos, runPc, runResult, raisedIn>>
    /\ notifications' = Append(notifications, Message("channel", channel_index, 0))
    /\ startedCancelled' = StartedNow("channel", TRUE)
    /\ UNCHANGED cancelled
    /\ UNCHANGED tokenVars
    /\ RunOnly

\* lines 129-162: the channel info is a success and extract_recent_videos
\* returns the stubs
ChannelListed ==
    /\ runPc = "channel"
    /\ channel_index <= Len(channels)
    /\ \E info \in Infos :
          /\ ~InfoFailed(info)
          /\ infoErrors' = IF info.status # "success"
                           THEN infoErrors \cup {channels[channel_index]}
                           ELSE infoErrors
    /\ \E kind \in ListingAnswers : ~ListingRaises(kind)
    /\ calls' = calls \o <<Call("extract_channel_info", channels[channel_index], 0),
                           Call("extract_recent_videos", channels[channel_index], 0)>>
    /\ \E vs \in RunVideoLists : run_videos' = vs
    /\ enriched_videos' = <<>>
    /\ v_index' = 1
    /\ runPc' = "videos"
    /\ UNCHANGED <<channels, mode, no_llm, asr_enabled, asr_provider, tmp_dirs, channel_index,
                   channel_payload, total_videos, runResult, raisedIn>>
    /\ notifications' = notifications \o <<Message("channel", channel_index, 0),
                                           Message("listed", channel_index, 0),
                                           Message("videos", channel_index, 0)>>
    /\ startedCancelled' = StartedNow("channel", TRUE)
    /\ UNCHANGED cancelled
    /\ prompt_tokens_channel' = 0
    /\ completion_tokens_channel' = 0
    /\ UNCHANGED <<token_details, channel_tokens, total_prompt_tokens,
                   total_completion_tokens>>
    /\ RunOnly

\* lines 139-144 and 275-277: extract_recent_videos raises; the try has a
\* finally and no except, the exception leaves run
ChannelListingRaises ==
    /\ runPc = "channel"
    /\ channel_index <= Len(channels)
    /\ \E info \in Infos :
          /\ ~InfoFailed(info)
          /\ infoErrors' = IF info.status # "success"
                           THEN infoErrors \cup {channels[channel_index]}
                           ELSE infoErrors
    /\ \E kind \in ListingAnswers : ListingRaises(kind)
    /\ calls' = calls \o <<Call("extract_channel_info", channels[channel_index], 0),
                           Call("extract_recent_videos", channels[channel_index], 0)>>
    /\ runPc' = "aborted"
    /\ raisedIn' = "extract_recent_videos"
    /\ UNCHANGED <<channels, mode, no_llm, asr_enabled, asr_provider, tmp_dirs, channel_index, v_index,
                   run_videos, enriched_videos, channel_payload, total_videos,
                   runResult>>
    /\ notifications' = Append(notifications, Message("channel", channel_index, 0))
    /\ startedCancelled' = StartedNow("channel", TRUE)
    /\ UNCHANGED cancelled
    /\ UNCHANGED tokenVars
    /\ RunOnly

\* lines 163-173: a stub without an id is passed over
SkipVideo ==
    /\ runPc = "videos"
    /\ v_index <= Len(run_videos)
    /\ run_videos[v_index].id = None
    /\ v_index' = v_index + 1
    /\ UNCHANGED <<channels, mode, no_llm, asr_enabled, asr_provider, tmp_dirs, channel_index, run_videos,
                   enriched_videos, channel_payload, total_videos, runPc,
                   runResult, calls, infoErrors, raisedIn>>
    /\ notifications' = Append(notifications, Message("video", channel_index, v_index))
    /\ startedCancelled' = StartedNow("video", TRUE)
    /\ UNCHANGED cancelled
    /\ UNCHANGED tokenVars
    /\ RunOnly

\* the calls one video makes: lines 174, 189 and 193
VideoCalls(c, id, t) ==
    <<Call("fetch_video_details", c, id)>>
    \o (IF mode = "full" THEN <<Call("fetch_transcript_text", c, id)>> ELSE <<>>)
    \o (IF mode = "full" /\ t.found /\ ~no_llm THEN <<Call("summarise", c, id)>> ELSE <<>>)

\* the temporary directory of the video being processed
Here == <<channel_index, v_index>>

\* what _obter_transcricao can return from where the run is
TranscriptionNow ==
    IF runPc = "asr" THEN AsrTranscricao(asr_provider)
    ELSE IF mode = "full" THEN ObterTranscricao(asr_enabled)
    ELSE { Transcription(FALSE, "modo_simples") }

\* lines 419-424: the video has no YouTube transcript and ASR is enabled;
\* the temporary directory is created
StartAsr ==
    /\ runPc = "videos"
    /\ v_index <= Len(run_videos)
    /\ run_videos[v_index].id # None
    /\ mode = "full"
    /\ asr_enabled
    /\ tmp_dirs' = tmp_dirs \cup {Here}
    /\ runPc' = "asr"
    /\ UNCHANGED <<channels, mode, no_llm, asr_enabled, asr_provider, channel_index,
                   v_index, run_videos, enriched_videos, channel_payload,
                   total_videos, runResult, calls, infoErrors, raisedIn>>
    /\ notifications' = Append(notifications, Message("video", channel_index, v_index))
    /\ startedCancelled' = StartedNow("video", TRUE)
    /\ UNCHANGED cancelled
    /\ UNCHANGED tokenVars
    /\ RunOnly

\* lines 424-429 and 275-277: the audio download or the adapter raises; the
\* `with` block removes the directory and the exception leaves run
AsrRaises ==
    /\ runPc = "asr"
    /\ tmp_dirs' = ExitTempDir(tmp_dirs, Here)
    /\ calls' = calls \o VideoCalls(channels[channel_index], run_videos[v_index].id,
                                     Transcription(FALSE, "sem_transcricao"))
    /\ runPc' = "aborted"
    /\ raisedIn' = "asr"
    /\ UNCHANGED <<channels, mode, no_llm, asr_enabled, asr_provider, channel_index,
                   v_index, run_videos, enriched_videos, channel_payload,
                   total_videos, runResult, infoErrors>>
    /\ UNCHANGED notifications
    /\ UNCHANGED startedCancelled
    /\ UNCHANGED cancelled
    /\ UNCHANGED tokenVars
    /\ RunOnly

\* lines 174-251: one video is processed and its record appended
ProcessVideo ==
    /\ runPc \in {"videos", "asr"}
    /\ v_index <= Len(run_videos)
    /\ run_videos[v_index].id # None
    /\ \E t \in TranscriptionNow :
          /\ calls' = calls \o VideoCalls(channels[channel_index],
                                          run_videos[v_index].id, t)
          /\ enriched_videos' =
                Append(enriched_videos,
                       Enriched(run_videos[v_index].id, t,
                                mode = "full" /\ t.found /\ ~no_llm))
          /\ \E tk \in (IF mode = "full" /\ t.found /\ ~no_llm
                         THEN SummaryTokens ELSE { UsageNumbers(0, 0) }) :
                /\ prompt_tokens_channel' = prompt_tokens_channel + tk.prompt_tokens
                /\ completion_tokens_channel' =
                      completion_tokens_channel + tk.completion_tokens
                /\ token_details' =
                      Append(token_details,
                             TokenDetail(channels[channel_index],
                                         run_videos[v_index].id, tk))
    /\ UNCHANGED <<channel_tokens, total_prompt_tokens, total_completion_tokens>>
    /\ tmp_dirs' = ExitTempDir(tmp_dirs, Here)
    /\ v_index' = v_index + 1
    /\ runPc' = "videos"
    /\ UNCHANGED <<channels, mode, no_llm, asr_enabled, asr_provider, channel_index,
                   run_videos, channel_payload, total_videos, runResult,
                   infoErrors, raisedIn>>
    /\ notifications' = notifications \o (IF runPc = "videos"
                                           THEN <<Message("video", channel_index, v_index)>>
                                           ELSE <<>>)
    /\ startedCancelled' = StartedNow("video", runPc = "videos")
    /\ UNCHANGED cancelled
    /\ RunOnly

\* lines 193-199 and 275-277: summarise raises (llm_client.py line 290 or
\* 584); the exception leaves run
SummariseRaises ==
    /\ runPc \in {"videos", "asr"}
    /\ v_index <= Len(run_videos)
    /\ run_videos[v_index].id # None
    /\ mode = "full"
    /\ ~no_llm
    /\ \E t \in TranscriptionNow :
          /\ t.found
          /\ calls' = calls \o VideoCalls(channels[channel_index],
                                          run_videos[v_index].id, t)
    /\ tmp_dirs' = ExitTempDir(tmp_dirs, Here)
    /\ runPc' = "aborted"
    /\ raisedIn' = "summarise"
    /\ UNCHANGED <<channels, mode, no_llm, asr_enabled, asr_provider, channel_index,
                   v_index, run_videos, enriched_videos, channel_payload,
                   total_videos, runResult, infoErrors>>
    /\ notifications' = notifications \o (IF runPc = "videos"
                                           THEN <<Message("video", channel_index, v_index)>>
                                           ELSE <<>>)
    /\ startedCancelled' = StartedNow("video", runPc = "videos")
    /\ UNCHANGED cancelled
    /\ UNCHANGED tokenVars
    /\ RunOnly

\* lines 252-274: the channel is closed
CloseChannel ==
    /\ runPc = "videos"
    /\ v_index > Len(run_videos)
    /\ total_videos' = total_videos + Len(enriched_videos)
    /\ channel_payload' =
          Append(channel_payload, SuccessEntry(channels[channel_index], enriched_videos))
    /\ channel_index' = channel_index + 1
    /\ runPc' = "channel"
    /\ UNCHANGED <<channels, mode, no_llm, asr_enabled, asr_provider, tmp_dirs, v_index, run_videos,
                   enriched_videos, runResult, calls, infoErrors, raisedIn>>
    /\ UNCHANGED notifications
    /\ UNCHANGED startedCancelled
    /\ UNCHANGED cancelled
    /\ channel_tokens' = Append(channel_tokens,
                                ChannelTokens(channels[channel_index],
                                              prompt_tokens_channel,
                                              completion_tokens_channel))
    /\ total_prompt_tokens' = total_prompt_tokens + prompt_tokens_channel
    /\ total_completion_tokens' = total_completion_tokens + completion_tokens_channel
    /\ UNCHANGED <<token_details, prompt_tokens_channel, completion_tokens_channel>>
    /\ RunOnly

\* lines 275-318: the loop is over and the result returned
RunReturns ==
    /\ runPc = "channel"
    /\ channel_index > Len(channels)
    /\ runPc' = "done"
    /\ runResult' = BuildRunResult(channel_payload, total_videos)
    /\ UNCHANGED <<channels, mode, no_llm, asr_enabled, asr_provider, tmp_dirs, channel_index, v_index,
                   run_videos, enriched_videos, channel_payload, total_videos,
                   calls, infoErrors, raisedIn>>
    /\ notifications' = Append(notifications, Message("finished", 0, 0))
    /\ UNCHANGED startedCancelled
    /\ UNCHANGED cancelled
    /\ UNCHANGED tokenVars
    /\ RunOnly

NextRun ==
    \/ NoChannels
    \/ RunBegins
    \/ ChannelFails
    \/ ChannelListed
    \/ ChannelListingRaises
    \/ SkipVideo
    \/ StartAsr
    \/ AsrRaises
    \/ ProcessVideo
    \/ SummariseRaises
    \/ CloseChannel
    \/ RunReturns

\* the run with a caller that may signal cancellation while it goes on
NextRunCancel ==
    \/ NextRun
    \/ SignalCancel

(***************************************************************************)
(*                 _safe_int and _extract_usage_numbers                    *)
(***************************************************************************)
\* A value under a key of the usage record: absent (no key, or None), an
\* integer, a numeric string, or a string that is no number.
Absent == [kind |-> "absent", n |-> 0]

IntVal(n) == [kind |-> "int", n |-> n]

StrVal(n) == [kind |-> "str", n |-> n]

JunkVal == [kind |-> "junk", n |-> 0]

UsageValues ==
    { Absent, JunkVal, StrVal(1) } \cup { IntVal(n) : n \in 0..MaxTokens }

UsageKeys == {"prompt_tokens", "input_tokens", "completion_tokens",
              "output_tokens", "total_tokens"}

\* usage is None
MissingUsage == [missing |-> TRUE, get |-> [k \in UsageKeys |-> Absent]]

Usages ==
    { MissingUsage }
    \cup { [missing |-> FALSE, get |-> f] : f \in [UsageKeys -> UsageValues] }

\* _safe_int (lines 17-31)
SafeInt(v) ==
    CASE v.kind = "int" -> v.n
      [] v.kind = "str" -> v.n
      [] OTHER -> 0

\* _read (lines 69-76): the first of the keys that has a value
RECURSIVE ReadUsage(_, _)
ReadUsage(u, keys) ==
    IF keys = <<>> THEN 0
    ELSE IF u.get[Head(keys)].kind # "absent" THEN SafeInt(u.get[Head(keys)])
    ELSE ReadUsage(u, Tail(keys))

Max(a, b) == IF a > b THEN a ELSE b

\* lines 78-90
ExtractUsageNumbers(u) ==
    IF u.missing THEN UsageNumbers(0, 0)
    ELSE
    LET p0 == ReadUsage(u, <<"prompt_tokens", "input_tokens">>)
        c0 == ReadUsage(u, <<"completion_tokens", "output_tokens">>)
        t  == ReadUsage(u, <<"total_tokens">>)
        c1 == IF c0 = 0 /\ t # 0 /\ p0 # 0 THEN Max(0, t - p0)
              ELSE IF c0 = 0 /\ t # 0 THEN t
              ELSE c0
        p1 == IF p0 = 0 /\ t # 0 /\ c1 # 0 THEN Max(0, t - c1) ELSE p0
    IN UsageNumbers(p1, c1)

UsageStart ==
    /\ usage \in Usages
    /\ usagePc = "start"
    /\ usage_numbers = UsageNumbers(0, 0)

UsageIdle ==
    /\ usage = MissingUsage /\ usagePc = "idle" /\ usage_numbers = UsageNumbers(0, 0)

\* lines 63-90: the call
ExtractUsage ==
    /\ usagePc = "start"
    /\ usage_numbers' = ExtractUsageNumbers(usage)
    /\ usagePc' = "done"
    /\ UNCHANGED usage
    /\ UsageOnly

NextUsage == ExtractUsage

(***************************************************************************)
(*      The registries: llm_service, fonte_service and repositories        *)
(***************************************************************************)
\* A row: its id, the columns the table may have to keep unique (the
\* conflict target of the INSERT) and the other columns.
Row(id, key, val) == [id |-> id, key |-> key, val |-> val]

RecordIds == 1..MaxRecords

Ids(table) == { r.id : r \in table }

\* modl_provedor and modl_modelo_llm; modl_api_key and modl_status
LlmKeys == {"OPENAI gpt-a", "OPENAI gpt-b"}

LlmVals == {"sk-1", "sk-2"}

\* foyt_nome_canal and the other columns of a channel
ChannelVals == {"Canal X", "Canal Y"}

\* fowe_fonte: a URL, a text that is no URL, a channel identifier
WebFontes == { <<"h", "t", "t", "p", ":", "/", "/", "s">>, <<"s">>, <<"@", "a">> }

\* fowe_tipo
WebTipos == {"site", "youtube"}

\* repositories.py lines 24-28 and 54-60: the columns of the conflict target
\* are unique in the table
UniqueKeys(table) == \A r, q \in table : r.key = q.key => r = q

UniqueIds(table) == \A r, q \in table : r.id = q.id => r = q

Tables(keys, vals) ==
    { t \in SUBSET { Row(i, k, v) : i \in RecordIds, k \in keys, v \in vals } :
         UniqueIds(t) }

\* validators.is_valid_url
IsValidUrl(value) ==
    /\ value # <<>>
    /\ StartsWith(Strip(value), <<"h", "t", "t", "p", ":", "/", "/">>)
    /\ Len(value) > 7

\* validators.validate_fonte_web: TRUE when it raises
ValidateFonteWebRaises(tipo, fonte, registered) ==
    \/ tipo \in {"site", "blog"} /\ ~IsValidUrl(Strip(fonte))
    \/ tipo = "youtube" /\ ~(\E r \in registered : r.key = Strip(fonte))

\* UPDATE ... WHERE id = ?: TRUE when the statement fails on the unique
\* columns (another row holds them)
UpdateClashes(table, id, key) ==
    /\ id \in Ids(table)
    /\ \E r \in table : r.id # id /\ r.key = key

\* UPDATE ... WHERE id = ?
UpdateRow(table, id, key, val) ==
    { IF r.id = id THEN Row(id, key, val) ELSE r : r \in table }

\* INSERT ... ON CONFLICT(key columns) DO UPDATE SET the other columns
UpsertRow(table, fresh, key, val) ==
    IF \E r \in table : r.key = key
    THEN { IF r.key = key THEN Row(r.id, key, val) ELSE r : r \in table }
    ELSE table \cup { Row(fresh, key, val) }

\* DELETE ... WHERE id = ?
DeleteRow(table, id) == { r \in table : r.id # id }

Op(op, id, key, val, raised) ==
    [op |-> op, id |-> id, key |-> key, val |-> val, raised |-> raised]

NoOp == Op("none", None, "", "", FALSE)

RegStart ==
    /\ regTable \in {"modelo_llm", "fonte_youtube", "fonte_web"}
    /\ modelo_llm \in (IF regTable = "modelo_llm"
                       THEN { t \in Tables(LlmKeys, LlmVals) : UniqueKeys(t) }
                       ELSE { {} })
    /\ fonte_youtube \in (IF regTable = "fonte_youtube"
                          THEN { t \in Tables(ChannelIds, ChannelVals) : UniqueKeys(t) }
                          ELSE IF regTable = "fonte_web"
                          THEN { {}, { Row(1, <<"@", "a">>, "Canal X") } }
                          ELSE { {} })
    /\ fonte_web \in (IF regTable = "fonte_web"
                      THEN Tables(WebFontes, WebTipos)
                      ELSE { {} })
    /\ lastOp = NoOp

RegIdle ==
    /\ regTable = "idle" /\ modelo_llm = {} /\ fonte_youtube = {}
    /\ fonte_web = {} /\ lastOp = NoOp

\* the id the INSERT gives a new row
FreshIds(table) == RecordIds \ Ids(table)

\* llm_service.register_llm_model (lines 47-62) with model_id set:
\* repositories.update_llm_model
UpdateLlmModel ==
    /\ regTable = "modelo_llm"
    /\ \E id \in RecordIds, key \in LlmKeys, val \in LlmVals :
          IF UpdateClashes(modelo_llm, id, key)
          THEN /\ lastOp' = Op("register", id, key, val, TRUE)
               /\ UNCHANGED modelo_llm
          ELSE /\ lastOp' = Op("register", id, key, val, FALSE)
               /\ modelo_llm' = UpdateRow(modelo_llm, id, key, val)
    /\ UNCHANGED <<regTable, fonte_youtube, fonte_web>>
    /\ RegOnly

\* llm_service.register_llm_model with model_id None:
\* repositories.save_llm_model
SaveLlmModel ==
    /\ regTable = "modelo_llm"
    /\ \E key \in LlmKeys, val \in LlmVals :
          /\ (\E r \in modelo_llm : r.key = key) \/ FreshIds(modelo_llm) # {}
          /\ \E fresh \in (IF \E r \in modelo_llm : r.key = key
                           THEN {None} ELSE FreshIds(modelo_llm)) :
                modelo_llm' = UpsertRow(modelo_llm, fresh, key, val)
          /\ lastOp' = Op("register", None, key, val, FALSE)
    /\ UNCHANGED <<regTable, fonte_youtube, fonte_web>>
    /\ RegOnly

\* llm_service.delete_llm_model (lines 113-116)
DeleteLlmModel ==
    /\ regTable = "modelo_llm"
    /\ \E id \in RecordIds :
          /\ modelo_llm' = DeleteRow(modelo_llm, id)
          /\ lastOp' = Op("delete", id, "", "", FALSE)
    /\ UNCHANGED <<regTable, fonte_youtube, fonte_web>>
    /\ RegOnly

\* fonte_service.register_youtube_channel (lines 13-32): line 17 reads
\* channel.registro_id, an attribute the YouTubeChannel of entities.py
\* (lines 22-30, slots) does not have: AttributeError, no statement runs
RegisterYoutubeChannel ==
    /\ regTable = "fonte_youtube"
    /\ \E id \in RecordIds \cup {None}, raw \in RawChannels \ {<<>>, <<" ">>},
          val \in ChannelVals :
          lastOp' = Op("register", id, NormalizeChannelId(raw), val, TRUE)
    /\ UNCHANGED <<regTable, modelo_llm, fonte_youtube, fonte_web>>
    /\ RegOnly

\* fonte_service.delete_youtube_channel (lines 41-44)
DeleteYoutubeChannel ==
    /\ regTable = "fonte_youtube"
    /\ \E id \in RecordIds :
          /\ fonte_youtube' = DeleteRow(fonte_youtube, id)
          /\ lastOp' = Op("delete", id, "", "", FALSE)
    /\ UNCHANGED <<regTable, modelo_llm, fonte_web>>
    /\ RegOnly

\* fonte_service.register_web_source (lines 48-66): validation, then
\* update_web_source when entry_id is set, save_web_source when it is not
RegisterWebSource ==
    /\ regTable = "fonte_web"
    /\ \E id \in RecordIds \cup {None}, fonte \in WebFontes, tipo \in WebTipos :
          IF ValidateFonteWebRaises(tipo, fonte, fonte_youtube)
          THEN /\ lastOp' = Op("register", id, fonte, tipo, TRUE)
               /\ UNCHANGED fonte_web
          ELSE IF id # None
          THEN /\ lastOp' = Op("register", id, fonte, tipo, FALSE)
               /\ fonte_web' = UpdateRow(fonte_web, id, fonte, tipo)
          ELSE /\ FreshIds(fonte_web) # {}
               /\ lastOp' = Op("register", id, fonte, tipo, FALSE)
               /\ \E fresh \in FreshIds(fonte_web) :
                     fonte_web' = fonte_web \cup { Row(fresh, fonte, tipo) }
    /\ UNCHANGED <<regTable, modelo_llm, fonte_youtube>>
    /\ RegOnly

\* fonte_service.delete_web_source (lines 72-73)
DeleteWebSource ==
    /\ regTable = "fonte_web"
    /\ \E id \in RecordIds :
          /\ fonte_web' = DeleteRow(fonte_web, id)
          /\ lastOp' = Op("delete", id, "", "", FALSE)
    /\ UNCHANGED <<regTable, modelo_llm, fonte_youtube>>
    /\ RegOnly

NextReg ==
    \/ UpdateLlmModel
    \/ SaveLlmModel
    \/ DeleteLlmModel
    \/ RegisterYoutubeChannel
    \/ DeleteYoutubeChannel
    \/ RegisterWebSource
    \/ DeleteWebSource

(***************************************************************************)
(*                         ui_helpers.paginate                             *)
(***************************************************************************)
\* st.session_state[page_key]: absent, or a page index
NoPage == [has |-> FALSE, page |-> 0]

StoredPage(n) == [has |-> TRUE, page |-> n]

\* line 24: st.session_state.get(page_key, 0)
GetPage(state) == IF state.has THEN state.page ELSE 0

\* the last page an off-by-one would give
MaxPageNoMinusOne(total, sz) == IF total # 0 THEN Max(0, total \div sz) ELSE 0

\* line 26
MaxPage(total, sz) == IF total # 0 THEN Max(0, (total - 1) \div sz) ELSE 0

\* items[start:end] for 0 <= start
Slice(xs, start, end) == SubSeq(xs, start + 1, Min(end, Len(xs)))

PageResult(xs, page, start, end) ==
    [items |-> xs, page |-> page, start |-> start, end |-> end]

NoPageResult == PageResult(<<>>, None, None, None)

PgStart ==
    /\ \E n \in 0..MaxItems : pg_items = [i \in 1..n |-> i]
    /\ pg_size \in 1..MaxPageSize
    /\ session_state \in { NoPage } \cup { StoredPage(n) : n \in 0..MaxStoredPage }
    /\ stored_page = GetPage(session_state)
    /\ pgPc = "start"
    /\ pgResult = NoPageResult

PgIdle ==
    /\ pg_items = <<>> /\ pg_size = 1 /\ session_state = NoPage /\ stored_page = 0
    /\ pgPc = "idle" /\ pgResult = NoPageResult

\* lines 21-32
Paginate ==
    /\ pgPc = "start"
    /\ LET total == Len(pg_items)
           max_page == MaxPage(total, pg_size)
           page == IF GetPage(session_state) > max_page
                   THEN max_page ELSE GetPage(session_state)
           start == page * pg_size
           end == Min(start + pg_size, total)
       IN /\ session_state' = IF GetPage(session_state) > max_page
                              THEN StoredPage(page) ELSE session_state
          /\ pgResult' = PageResult(Slice(pg_items, start, end), page, start, end)
    /\ pgPc' = "done"
    /\ UNCHANGED <<pg_items, pg_size, stored_page>>
    /\ PgOnly

NextPg == Paginate

(***************************************************************************)
(*               Claims about _extract_from_videos_tab                     *)
(***************************************************************************)
\* a listed item that is a non-live, non-upcoming video older than the window
OverAge(it) ==
    /\ it.kind = "renderer" /\ it.videoId /\ ~it.live /\ ~it.upcoming
    /\ it.rel.unit # "none"
    /\ ((it.rel.unit = "hour" /\ it.rel.n >= 24 * (max_age_days + 1))
        \/ (it.rel.unit = "day" /\ it.rel.n > max_age_days)
        \/ (it.rel.unit = "week" /\ 7 * it.rel.n > max_age_days))

ScenarioResult == <<Stub(1, Aged(1)), Stub(2, Aged(2)), Stub(3, Aged(3))>>

\* C2: with max_age_days set, once the listing holds a non-live, non-upcoming
\* video older than max_age_days, neither that video nor any item listed
\* after it is in `videos`, and the call is not in a position to send another
\* continuation request; for the page with ages 1, 2, 3, 10, 4 days and
\* max_age_days = 5 (no max_videos) the call returns exactly the first three.
C2_AgeStop ==
    /\ max_age_days # None =>
          \A p \in 1..Len(listing) :
              OverAge(listing[p]) =>
                  /\ \A i \in 1..Len(videos) : videos[i].id < p
                  /\ tabPc = "done"
                  /\ tabResult = Returned(videos)
    /\ (tabPc = "done" /\ max_age_days = 5 /\ max_videos = None
          /\ listing = ScenarioPage)
       => tabResult = Returned(ScenarioResult)

\* C2 witness: the scenario page was scanned and the call returned
C2_Witness ==
    /\ tabPc = "done" /\ max_age_days = 5 /\ max_videos = None
    /\ listing = ScenarioPage
    /\ Len(tabResult.videos) = 3

\* C8: every call of _extract_from_videos_tab returns (after finitely many
\* continuation requests), whatever the endpoint answers
C8_Terminates == <>(tabPc = "done")

\* C9: after a failed continuation request (network error, non-200, a body
\* that is not JSON, JSON without the expected structure) the call raises
\* nothing and returns the videos accepted before the failure
C9_FailureKeepsVideos ==
    (tabPc = "done" /\ failure # "none") => tabResult = Returned(videos)

\* C10: for every non-null max_videos the accepted list never holds more
\* than max_videos entries, and once it holds max_videos the scan is over
C10_AtMostMaxVideos ==
    max_videos # None =>
        /\ Len(videos) <= max_videos
        /\ Len(videos) >= max_videos => tabPc \in {"start", "done"}

\* a listed video (not live, not upcoming) whose publish text no pattern matches
Undated(it) ==
    /\ it.kind = "renderer" /\ it.videoId /\ ~it.live /\ ~it.upcoming
    /\ it.rel.unit = "none"

\* a listed video (not live, not upcoming) with a parsed age inside the window
InWindow(it) ==
    /\ it.kind = "renderer" /\ it.videoId /\ ~it.live /\ ~it.upcoming
    /\ it.rel.unit # "none"
    /\ ~OverAge(it)

\* C11: with max_age_days set, a video whose publish text cannot be parsed
\* is never in `videos`; it does not stop the scan (the scan is only stopped
\* by an over-age video or by max_videos) and the in-window videos listed
\* after it, on the same page or a later one, are still accepted.
C11_UndatedSkipped ==
    max_age_days # None =>
        /\ \A i \in 1..Len(videos) : videos[i].published_relative.unit # "none"
        /\ stop => \/ \E p \in 1..Len(listing) : OverAge(listing[p])
                   \/ (max_videos # None /\ Len(videos) >= max_videos)
        /\ max_videos = None =>
               \A p \in 1..Len(listing), q \in 1..Len(listing) :
                   ( /\ p < q
                     /\ Undated(listing[p])
                     /\ InWindow(listing[q])
                     /\ \A k \in 1..q : ~OverAge(listing[k]) )
                   => \E i \in 1..Len(videos) : videos[i].id = q

\* C11 witness: an undated video on the first page, an in-window video
\* accepted from a later page, and the call has returned
C11_Witness ==
    /\ max_age_days # None /\ max_videos = None
    /\ tabPc = "done"
    /\ Len(listing) = 3
    /\ Undated(listing[1])
    /\ InWindow(listing[3])
    /\ \E i \in 1..Len(tabResult.videos) : tabResult.videos[i].id = 3


(***************************************************************************)
(*                  Claims about fetch_transcript_text                     *)
(***************************************************************************)
\* C3: when listing the caption tracks raises an access-blocked error, the
\* legacy fallback is called exactly once, its result is returned, and no
\* native find, fetch or translate call is made
C3_BlockedListing ==
    (trPc = "done" /\ blockedAt = "list") =>
        /\ Len(legacyResults) = 1
        /\ trResult = TrReturned(legacyResults[1])
        /\ finds = <<>> /\ fetchCalls = 0 /\ translateCalls = 0

\* C3 witness: the listing was blocked and the fallback's text was returned
C3_Witness ==
    trPc = "done" /\ blockedAt = "list" /\ trResult = TrReturned(LegacyText)

EnAuto == Track("en", TRUE)

\* C5: the finds go through the language list in order, manual track before
\* generated track; when a fetch of the language loop returns non-empty text,
\* that text (of the track found last) is the result and no translate call
\* and no legacy fallback call was made; with the single track en (auto) and
\* the languages [pt, en], the first fetch is that of the fourth find, the
\* en (auto) track, and its text is the result
C5_LanguageOrder ==
    /\ \A k \in 1..Len(finds) :
          /\ finds[k].lang = LangList(preferred_langs)[(k + 1) \div 2]
          /\ finds[k].gen = (k % 2 = 0)
    /\ firstAt = "langs" =>
          /\ trPc = "done"
          /\ firstText = NativeText(finds[Len(finds)])
          /\ trResult = TrReturned(firstText)
          /\ translateCalls = 0
          /\ legacyResults = <<>>
    /\ (all_transcripts = <<EnAuto>> /\ preferred_langs = <<"pt", "en">>) =>
          /\ (fetchCalls >= 1 => Len(finds) >= 4 /\ finds[4] = EnAuto)
          /\ (firstAt = "langs" =>
                 /\ finds[Len(finds)] = EnAuto
                 /\ trResult = TrReturned(NativeText(EnAuto)))

\* C5 witness: the scenario, with the en (auto) text returned
C5_Witness ==
    /\ trPc = "done" /\ all_transcripts = <<EnAuto>>
    /\ preferred_langs = <<"pt", "en">>
    /\ Len(finds) = 4 /\ fetchCalls = 1
    /\ trResult = TrReturned(NativeText(EnAuto))

\* a step taken after a blocked fetch or translate makes no native call
NoCallAfterBlocked ==
    blockedAt \in {"fetch", "translate"} =>
        UNCHANGED <<finds, fetchCalls, translateCalls>>

FoundTexts ==
    { NativeText(tr) : tr \in Tracks } \cup { TranslatedText(tr) : tr \in Tracks }
    \cup { LegacyText }

\* C17: the tag returned with a found transcript identifies the step that
\* produced the text: the tag given to a native caption, to a translated
\* caption and to a legacy (yt-dlp) text is not the tag any other of these
\* steps would get, and an ASR text carries the tag of its backend.
C17_TagIdentifiesStep ==
    analysis_source # "none" =>
        /\ trResult.text # NoText =>
               \A other \in FoundTexts :
                   other.src # trResult.text.src => YouTubeTag(other) # analysis_source
        /\ trResult.text = NoText =>
               analysis_source \in {"sem_transcricao", "asr_openai", "asr_faster_whisper"}

(***************************************************************************)
(*                    Claims about LLMClient.summarise                     *)
(***************************************************************************)
IsSummary(q) == q.mode = "summary"

IsTranslation(q) == q.mode # "summary"

SummaryRequests == SelectSeq(requests, IsSummary)

TranslationRequests == SelectSeq(requests, IsTranslation)

\* C4: the summary requests follow the limits 8000, 6000, 4000, 2500, 1500,
\* 900, 600 in order, each at most once; at the first attempt whose answer
\* is non-empty, not truncated and a JSON object, summarise returns the
\* result of that attempt; with a provider answering "length" down to 2500
\* and a valid object at 1500, exactly the five requests 8000..1500 are made
\* and the size-1500 result is returned.
C4_ExcerptShrink ==
    /\ Len(SummaryRequests) <= Len(ExcerptLimits)
    /\ \A k \in 1..Len(SummaryRequests) :
           SummaryRequests[k].limit = ExcerptLimits[k]
    /\ goodAt # 0 =>
           /\ llmPc \in {"bulk", "fields", "done"}
           /\ summary.source = "llm"
           /\ summary.limit = ExcerptLimits[goodAt]
           /\ Len(SummaryRequests) = goodAt
    /\ (stubOk /\ Len(SummaryRequests) >= 5) =>
           /\ Len(SummaryRequests) = 5
           /\ summary.source = "llm"
           /\ summary.limit = 1500

\* C6: once translation is engaged the first translation request is the one
\* bulk request; per-field requests are made only if the bulk request
\* failed; a plain-text request for a field comes right after that field's
\* failed JSON request; nothing follows a successful bulk request.
C6_TranslationChain ==
    LET t == TranslationRequests IN
    /\ llmPc = "fields" => Len(t) >= 1
    /\ (llmPc = "done" /\ translate_mode = "pt-br" /\ llmResult.source \in {"llm", "heuristic"}
          /\ active)
          => Len(t) >= 1
    /\ Len(t) >= 1 => t[1].mode = "bulk"
    /\ \A k \in 2..Len(t) : t[k].mode # "bulk"
    /\ Len(t) >= 2 => bulkOutcome = "failed"
    /\ bulkOutcome = "ok" => Len(t) = 1
    /\ \A k \in 1..Len(t) :
           t[k].mode = "field_text" =>
               /\ k > 1
               /\ t[k - 1] = Request("field_json", 0, t[k].field)
               /\ t[k].field \in jsonFailed

C6_Witness ==
    /\ llmPc = "done"
    /\ bulkOutcome = "failed"
    /\ \E k \in 1..Len(requests) : requests[k].mode = "field_text"
    /\ \E k \in 1..Len(requests) :
           /\ requests[k].mode = "field_json"
           /\ requests[k].field \notin jsonFailed

\* C14: with an empty or whitespace-only transcript summarise makes no
\* provider request and returns the result with every text field empty, no
\* keywords and zero tokens; with a transcript but no active client it
\* makes no provider request and returns the heuristic summary.
C14_NoRequestWithoutInput ==
    /\ transcript = "blank" =>
           /\ requests = <<>>
           /\ llmPc \in {"start", "done"}
           /\ llmPc = "done" => llmResult = EmptyResult
    /\ (transcript # "blank" /\ ~active) =>
           /\ requests = <<>>
           /\ llmPc \in {"start", "done"}
           /\ llmPc = "done" => llmResult \in HeuristicResults

\* C14 witness: a long transcript, translation to pt-br asked for, no active
\* client: the heuristic summary was returned without a request
C14_Witness ==
    /\ llmPc = "done" /\ ~active
    /\ transcript = "long" /\ translate_mode = "pt-br"
    /\ llmResult.source = "heuristic"
    /\ requests = <<>>

\* C15: as long as every summary request ended in a provider error or an
\* empty text, summarise goes on to the next limit; it leaves the loop only
\* after seven summary requests, one per limit in order, then takes the
\* heuristic summary and returns it; nothing is raised to the caller.
C15_AllAttemptsFail ==
    (active /\ transcript # "blank" /\ onlyErrors) =>
        /\ llmPc # "raised"
        /\ llmPc = "loop" => Len(SummaryRequests) = index - 1
        /\ llmPc \in {"heuristic", "bulk", "fields", "done"} =>
               /\ Len(SummaryRequests) = Len(ExcerptLimits)
               /\ \A k \in 1..Len(ExcerptLimits) :
                      SummaryRequests[k].limit = ExcerptLimits[k]
        /\ llmPc \in {"bulk", "fields", "done"} => summary.source = "heuristic"
        /\ llmPc = "done" => llmResult.source = "heuristic"

\* C15 witness: seven failed requests, the heuristic summary returned
C15_Witness ==
    /\ active /\ transcript # "blank" /\ onlyErrors
    /\ llmPc = "done"
    /\ Len(requests) = 7
    /\ llmResult \in HeuristicResults

\* C16: whatever the provider answers and whichever tier produces the
\* result (LLM answer, heuristic summary, bulk, per-field or plain-text
\* translation), summarise raises nothing, and the result it returns holds
\* the four text fields and the keyword list, none of them null.
C16_FieldsPresentNoRaise ==
    /\ llmPc # "raised"
    /\ llmPc = "done" =>
           /\ \A k \in 1..Len(TextFields) : llmResult[TextFields[k]].size \in Sizes
           /\ llmResult.palavras_chave.kind \in {"empty", "strings", "mixed"}

\* C18: when the bulk request failed, and a text field's JSON request and
\* its plain-text request failed too (the field is among the failed JSON
\* requests and no plain-text translation produced its value), the field of
\* the returned result is the value from before translation, unchanged,
\* whatever its length.
C18_UntranslatedUnchanged ==
    (llmPc = "done" /\ bulkOutcome = "failed") =>
        \A k \in 1..Len(TextFields) :
            LET v == llmResult[TextFields[k]] IN
            (TextFields[k] \in jsonFailed /\ v.tr # "plain") => v.tr = "orig"

(***************************************************************************)
(*                Claims about YouTubeExecutionService.run                 *)
(***************************************************************************)
PositionOf(c) == CHOOSE k \in 1..Len(channels) : channels[k] = c

PayloadOf(c) == { k \in 1..Len(channel_payload) : channel_payload[k].channel_id = c }

ChannelWork == {"extract_recent_videos", "fetch_video_details",
                "fetch_transcript_text", "summarise"}

\* C1: an exception raised while one video or one channel is processed does
\* not end the run: the run is never left through an exception, and when it
\* returns every resolved channel has its entry.
C1_RunSurvivesItemFailure ==
    /\ runPc # "aborted"
    /\ raisedIn = "none"
    /\ runPc = "done" => Len(channel_payload) = Len(channels)

\* C7: a channel whose info status is not "success" gets exactly one entry,
\* with status "error" and no videos; no listing, details, transcript or
\* summarise call is made for it; and the loop has moved on past it.
C7_FailedChannelSkipped ==
    \A c \in infoErrors :
        /\ Cardinality(PayloadOf(c)) = 1
        /\ \A k \in PayloadOf(c) : channel_payload[k] = ErrorEntry(c)
        /\ \A k \in 1..Len(calls) :
               calls[k].channel = c => calls[k].op \notin ChannelWork
        /\ channel_index > PositionOf(c)
        /\ (PositionOf(c) < Len(channels) /\ runPc = "done") =>
               \E k \in 1..Len(calls) :
                   /\ calls[k].channel = channels[PositionOf(c) + 1]
                   /\ calls[k].op = "extract_channel_info"

C7_Witness ==
    /\ runPc = "done"
    /\ Len(channels) = 2
    /\ channels[1] \in infoErrors
    /\ channel_payload[2].status = "success"
    /\ Len(channel_payload[2].videos) > 0
    /\ runResult.failed_channels = 1

\* C13: the temporary directory of a video's ASR audio exists only while
\* _obter_transcricao is inside its ASR fallback for that video; once the
\* call is left (no audio, adapter text, empty adapter output, exception)
\* no temporary directory exists, so none exists when the next video, the
\* next channel or the end of the run is reached.
C13_TempDirRemoved ==
    /\ runPc # "asr" => tmp_dirs = {}
    /\ runPc = "asr" => tmp_dirs = {Here}

\* C13 witness: an ASR transcription was recorded for the first video, an
\* exception ended the ASR fallback of the second, and no directory is left
C13_Witness ==
    /\ runPc = "aborted" /\ raisedIn = "asr"
    /\ tmp_dirs = {}
    /\ v_index = 2
    /\ Len(enriched_videos) = 1
    /\ enriched_videos[1].analysis_source \in {"asr_openai", "asr_faster_whisper"}

\* C20: when _resolve_channels gives no channel the run ends with the
\* configuration error of line 82 and nothing has happened by then: no
\* message was handed to _notify and no extractor or LLM call was made.
C20_NoChannelConfigError ==
    (channels = <<>> /\ runPc \notin {"idle", "start"}) =>
        /\ runPc = "config_error"
        /\ notifications = <<>>
        /\ calls = <<>>
        /\ runResult = NoRunResult

C20_Witness ==
    /\ runPc = "config_error"
    /\ channels = <<>>

\* the canonical leading marker of a channel identifier
Marked(c) == StartsWith(c, <<"@">>) \/ StartsWith(c, <<"U", "C">>)

\* C21: every channel a call of the run is made for starts with "@" or "UC";
\* normalize_channel_id leaves an identifier with such a start unchanged,
\* prefixes "@" to any other, and applying it twice gives what applying it
\* once gives.
C21_ChannelsNormalized ==
    /\ \A i \in 1..Len(calls) : Marked(calls[i].channel)
    /\ \A r \in RawChannels :
          /\ Marked(r) => NormalizeChannelId(r) = r
          /\ ~Marked(r) => NormalizeChannelId(r) = <<"@">> \o r
          /\ NormalizeChannelId(NormalizeChannelId(r)) = NormalizeChannelId(r)

\* the part of C21 that holds: the marker is there for every identifier that
\* is not blank, and normalising twice changes nothing
C21_NonBlankMarked ==
    /\ \A i \in 1..Len(calls) :
          calls[i].channel # <<>> => Marked(calls[i].channel)
    /\ \A r \in RawChannels :
          NormalizeChannelId(NormalizeChannelId(r)) = NormalizeChannelId(r)

\* the positions of the channel-start and video messages
WorkMessages ==
    { i \in 1..Len(notifications) : notifications[i].kind \in {"channel", "video"} }

\* the positions of the video messages of channel c
VideoMessages(c) ==
    { i \in 1..Len(notifications) :
         notifications[i].kind = "video" /\ notifications[i].channel = c }

\* the positions of the run-completion message
FinishedMessages ==
    { i \in 1..Len(notifications) : notifications[i].kind = "finished" }

\* the channel-start message comes before the channel's video messages, the
\* channels come in processing order without interleaving, and a channel's
\* video messages are one per stub gone through, in listing order
ProgressOrdered ==
    /\ \A j \in WorkMessages :
          notifications[j].kind = "video" =>
             \E i \in 1..(j - 1) :
                /\ notifications[i].kind = "channel"
                /\ notifications[i].channel = notifications[j].channel
    /\ \A i, j \in WorkMessages :
          i < j => notifications[i].channel <= notifications[j].channel
    /\ \A c \in 1..Len(channels) :
          \A i, j \in VideoMessages(c) :
             i < j => notifications[i].video < notifications[j].video
    /\ runPc = "videos" =>
          { notifications[i].video : i \in VideoMessages(channel_index) }
             = 1..(v_index - 1)
    /\ \A i \in FinishedMessages : \A j \in WorkMessages : j < i

\* C22: the messages come in order (ProgressOrdered) and, the run over, the
\* run-completion message has been delivered exactly once, after every
\* channel and video message, every stub of every listed channel having had
\* its video message.
C22_ProgressOrder ==
    /\ ProgressOrdered
    /\ runPc \in {"done", "aborted"} =>
          /\ Cardinality(FinishedMessages) = 1
          /\ FinishedMessages = {Len(notifications)}

\* the same read on the runs that return
C22_OrderOnReturn ==
    /\ ProgressOrdered
    /\ Cardinality(FinishedMessages) <= 1
    /\ runPc = "done" =>
          /\ Cardinality(FinishedMessages) = 1
          /\ FinishedMessages = {Len(notifications)}

\* C23: once cancellation has been signalled the run starts no further
\* channel and no further video.
C23_CancellationChecked == startedCancelled = {}

\* C26: an answer whose JSON value is no object is handled like one that
\* cannot be parsed: the loop is left at that attempt, so no further summary
\* request follows it, and the heuristic summary is what is returned.
C26_NonObjectLikeParseFailure ==
    nonObjectSeen =>
        /\ ~(llmPc = "loop" /\ index <= Len(ExcerptLimits))
        /\ summary.source \in {"none", "heuristic"}

\* C27: in one fetch_transcript_text call the legacy fallback is invoked at
\* most once, whatever path the cascade takes.
C27_LegacyAtMostOnce == Len(legacyResults) <= 1

\* the per-field translation requests made for field f
FieldRequests(f) ==
    { k \in 1..Len(requests) :
         requests[k].mode = "field_json" /\ requests[k].field = f }

\* C30: when the bulk translation request has failed and the per-field
\* translation is over, a per-field translation request has been made for
\* each of the five summary fields, whatever the fields' contents.
C30_PerFieldForAllFive ==
    (bulkOutcome = "failed" /\ llmPc \in {"done", "raised"}) =>
        \A f \in AllFields : FieldRequests(f) # {}

\* each field gets at most one per-field request, and gets one when its
\* value is not blank (the keyword list: not empty)
C30_NonBlankFieldsRequested ==
    (bulkOutcome = "failed" /\ llmPc = "done") =>
        /\ \A f \in AllFields : Cardinality(FieldRequests(f)) <= 1
        /\ \A k \in 1..Len(TextFields) :
              (llmResult[TextFields[k]].size # "blank"
                  \/ llmResult[TextFields[k]].tr # "orig")
                 => FieldRequests(TextFields[k]) # {}
        /\ llmResult.palavras_chave.kind # "empty"
              => FieldRequests("palavras_chave") # {}

(***************************************************************************)
(*                  Claims about the result of the run                     *)
(***************************************************************************)
\* the number of per-video records over the successful channels
RECURSIVE RecordCount(_)
RecordCount(payload) ==
    IF payload = <<>> THEN 0
    ELSE (IF Head(payload).status = "success" THEN Len(Head(payload).videos) ELSE 0)
         + RecordCount(Tail(payload))

HasId(stub) == stub.id # None

\* the ids of the stubs of the channel the loop has gone past, in order
PassedIds ==
    LET passed == SelectSeq(SubSeq(run_videos, 1, v_index - 1), HasId)
    IN  [k \in 1..Len(passed) |-> passed[k].id]

OfThisChannel(d) == d.canal = channels[channel_index]

\* the token details of the channel being processed
DetailsHere == SelectSeq(token_details, OfThisChannel)

\* C28: when run completes the channel payload holds exactly one entry per
\* resolved channel, in processing order; success_channels + failed_channels
\* = total_channels = the number of resolved channels; total_videos is the
\* number of per-video records over the successful channels; and a stub
\* without an id produces no record, no token detail and no count: while a
\* channel is processed its records and its token details are those of the
\* stubs with an id the loop has gone past, one each and in order.
C28_PayloadAndCounts ==
    /\ runPc \in {"videos", "asr"} =>
          /\ Len(enriched_videos) = Len(PassedIds)
          /\ \A k \in 1..Len(PassedIds) : enriched_videos[k].id = PassedIds[k]
          /\ Len(DetailsHere) = Len(PassedIds)
          /\ \A k \in 1..Len(PassedIds) : DetailsHere[k].video_id = PassedIds[k]
    /\ runPc = "done" =>
          /\ Len(channel_payload) = Len(channels)
          /\ \A k \in 1..Len(channels) : channel_payload[k].channel_id = channels[k]
          /\ runResult.success_channels + runResult.failed_channels
                = runResult.total_channels
          /\ runResult.total_channels = Len(channels)
          /\ runResult.success_channels = CountStatus(channel_payload, "success")
          /\ runResult.failed_channels = CountStatus(channel_payload, "error")
          /\ runResult.total_videos = RecordCount(channel_payload)
          /\ Len(token_details) = runResult.total_videos
          /\ \A k \in 1..Len(channel_payload) :
                \A j \in 1..Len(channel_payload[k].videos) :
                    channel_payload[k].videos[j].id # None

\* a completed run of two channels, one failed and one successful, whose
\* successful channel listed a stub without an id and a stub with one
C28_Witness ==
    /\ runPc = "done"
    /\ Len(channels) = 2
    /\ runResult.failed_channels = 1
    /\ runResult.success_channels = 1
    /\ runResult.total_videos = 1
    /\ Len(run_videos) = 2
    /\ \E k \in 1..2 : run_videos[k].id = None

RECURSIVE SumEntrada(_)
SumEntrada(entries) ==
    IF entries = <<>> THEN 0
    ELSE Head(entries).tokens_entrada + SumEntrada(Tail(entries))

RECURSIVE SumSaida(_)
SumSaida(entries) ==
    IF entries = <<>> THEN 0
    ELSE Head(entries).tokens_saida + SumSaida(Tail(entries))

\* the token details of the channel of entry e of channel_tokens
DetailsOf(e) ==
    LET OfEntry(d) == d.canal = e.canal
    IN  SelectSeq(token_details, OfEntry)

IsPrefix(a, b) == Len(a) <= Len(b) /\ SubSeq(b, 1, Len(a)) = a

TokenSums ==
    \* every counter is non-negative
    /\ total_prompt_tokens >= 0 /\ total_completion_tokens >= 0
    /\ prompt_tokens_channel >= 0 /\ completion_tokens_channel >= 0
    /\ \A k \in 1..Len(token_details) :
          token_details[k].tokens_entrada >= 0 /\ token_details[k].tokens_saida >= 0
    \* the totals are the sums over channel_tokens
    /\ total_prompt_tokens = SumEntrada(channel_tokens)
    /\ total_completion_tokens = SumSaida(channel_tokens)
    \* the entry of a channel is the sum of the channel's token details
    /\ \A k \in 1..Len(channel_tokens) :
          /\ channel_tokens[k].tokens_entrada = SumEntrada(DetailsOf(channel_tokens[k]))
          /\ channel_tokens[k].tokens_saida = SumSaida(DetailsOf(channel_tokens[k]))
    \* and so is the accumulator of the channel being processed
    /\ runPc \in {"videos", "asr"} =>
          /\ prompt_tokens_channel = SumEntrada(DetailsHere)
          /\ completion_tokens_channel = SumSaida(DetailsHere)

TokensGrow ==
    /\ total_prompt_tokens' >= total_prompt_tokens
    /\ total_completion_tokens' >= total_completion_tokens
    /\ IsPrefix(token_details, token_details')
    /\ IsPrefix(channel_tokens, channel_tokens')
    /\ (runPc \in {"videos", "asr"} /\ runPc' \in {"videos", "asr"}) =>
          /\ prompt_tokens_channel' >= prompt_tokens_channel
          /\ completion_tokens_channel' >= completion_tokens_channel

\* C29: total_prompt_tokens and total_completion_tokens are the sums of
\* tokens_entrada and tokens_saida over channel_tokens, and the entry of each
\* channel in channel_tokens is the sum of that channel's entries in
\* token_details, at every point of the run and so when it completes; every
\* counter is non-negative; the totals never decrease, the entries of
\* token_details and channel_tokens are only appended to, and the accumulator
\* of a channel never decreases while that channel is processed.
C29_TokenTotals == []TokenSums /\ [][TokensGrow]_vars

\* a completed run of two successful channels with summaries that cost tokens
C29_Witness ==
    /\ runPc = "done"
    /\ Len(channel_tokens) = 2
    /\ Len(token_details) >= 3
    /\ channel_tokens[1].tokens_entrada > 0
    /\ channel_tokens[2].tokens_saida > 0
    /\ total_prompt_tokens > channel_tokens[1].tokens_entrada

(***************************************************************************)
(*                      Claims about the registries                        *)
(***************************************************************************)
\* the table the calls of the behaviour go to
RegTableNow ==
    CASE regTable = "modelo_llm" -> modelo_llm
      [] regTable = "fonte_youtube" -> fonte_youtube
      [] OTHER -> fonte_web

\* the call just made was a register with the id of a record of the table
\* (for a web source: one that validate_fonte_web lets through)
RegisteredExisting ==
    /\ lastOp'.op = "register"
    /\ lastOp'.id \in Ids(RegTableNow)
    /\ regTable = "fonte_web" =>
          ~ValidateFonteWebRaises(lastOp'.val, lastOp'.key, fonte_youtube)

\* that record now has the fields given, every other record is as it was
ChangedInPlace ==
    RegTableNow' = { r \in RegTableNow : r.id # lastOp'.id }
                      \cup { Row(lastOp'.id, lastOp'.key, lastOp'.val) }

\* the record with the id is gone, every other record is as it was
Deleted ==
    RegTableNow' = { r \in RegTableNow : r.id # lastOp'.id }

RegistryStep ==
    /\ RegisteredExisting => ChangedInPlace
    /\ lastOp'.op = "delete" => Deleted

\* C24: in each of the three registries a register call with the id of an
\* existing record changes that record's fields in place, the number of
\* records and every other record unchanged, and a delete call removes the
\* record with that id and leaves every other record unchanged.
C24_RegistryMap == [][RegistryStep]_vars

\* the same for the registries and calls that behave so: deletes everywhere,
\* register in fonte_web, register in modelo_llm when no other record holds
\* the provider and model given
RegistryStepWhereSound ==
    /\ (/\ RegisteredExisting
        /\ regTable # "fonte_youtube"
        /\ ~UpdateClashes(RegTableNow, lastOp'.id, lastOp'.key) \/ regTable = "fonte_web")
          => ChangedInPlace
    /\ lastOp'.op = "delete" => Deleted

C24_WhereSound == [][RegistryStepWhereSound]_vars

(***************************************************************************)
(*                          Claims about paginate                          *)
(***************************************************************************)
LastPage == Max(0, (Len(pg_items) - 1) \div pg_size)

\* C25: a stored page index beyond the last page is clamped to the last
\* page, max(0, (total - 1) // size), and written back; the slice returned
\* is items[start:end] with start = page * size and end = min(start + size,
\* total), so 0 <= start <= end <= total; an empty list gives ([], 0, 0, 0).
C25_PaginateClamps ==
    pgPc = "done" =>
        /\ stored_page > LastPage =>
              /\ pgResult.page = LastPage
              /\ session_state = StoredPage(LastPage)
        /\ stored_page <= LastPage => pgResult.page = stored_page
        /\ pgResult.start = pgResult.page * pg_size
        /\ pgResult.end = Min(pgResult.start + pg_size, Len(pg_items))
        /\ 0 <= pgResult.start
        /\ pgResult.start <= pgResult.end
        /\ pgResult.end <= Len(pg_items)
        /\ pgResult.items =
              [i \in 1..(pgResult.end - pgResult.start) |-> pg_items[pgResult.start + i]]
        /\ pg_items = <<>> => pgResult = PageResult(<<>>, 0, 0, 0)

C25_Witness ==
    /\ pgPc = "done"
    /\ pg_items # <<>>
    /\ stored_page > LastPage
    /\ pgResult.end - pgResult.start < pg_size

(***************************************************************************)
(*                  Claims about _extract_usage_numbers                    *)
(***************************************************************************)
\* the count the usage record carries under one of the keys, if any
Carries(keys) == \E k \in keys : usage.get[k].kind # "absent"

PromptKeys == {"prompt_tokens", "input_tokens"}

CompletionKeys == {"completion_tokens", "output_tokens"}

CarriedPrompt == ReadUsage(usage, <<"prompt_tokens", "input_tokens">>)

CarriedCompletion == ReadUsage(usage, <<"completion_tokens", "output_tokens">>)

CarriedTotal == ReadUsage(usage, <<"total_tokens">>)

\* C19: a missing usage record gives (0, 0); with a total and exactly one of
\* the two counts the count carried is returned as it is and the absent one
\* is max(0, total - carried), so the two add up to the total whenever the
\* total is at least the carried count; with both counts carried both are
\* returned unchanged.
C19_UsageNumbers ==
    usagePc = "done" =>
        /\ usage.missing => usage_numbers = UsageNumbers(0, 0)
        /\ (Carries({"total_tokens"}) /\ Carries(PromptKeys) /\ ~Carries(CompletionKeys)) =>
               usage_numbers = UsageNumbers(CarriedPrompt,
                                            Max(0, CarriedTotal - CarriedPrompt))
        /\ (Carries({"total_tokens"}) /\ Carries(CompletionKeys) /\ ~Carries(PromptKeys)) =>
               usage_numbers = UsageNumbers(Max(0, CarriedTotal - CarriedCompletion),
                                            CarriedCompletion)
        /\ (Carries(PromptKeys) /\ Carries(CompletionKeys)) =>
               usage_numbers = UsageNumbers(CarriedPrompt, CarriedCompletion)

(***************************************************************************)
(*                          Specifications                                 *)
(***************************************************************************)
InitTab == TabStart /\ TrIdle /\ LlmIdle /\ RunIdle /\ UsageIdle /\ RegIdle /\ PgIdle

SpecTab == InitTab /\ [][NextTab]_vars

\* the call is sequential code: it always takes its next step
SpecTabFair == SpecTab /\ WF_vars(NextTab)

InitTr == TrStart /\ TabIdle /\ LlmIdle /\ RunIdle /\ UsageIdle /\ RegIdle /\ PgIdle

SpecTr == InitTr /\ [][NextTr]_vars

InitLlm == LlmStart /\ TabIdle /\ TrIdle /\ RunIdle /\ UsageIdle /\ RegIdle /\ PgIdle

SpecLlm == InitLlm /\ [][NextLlm]_vars

InitRun == RunStart /\ TabIdle /\ TrIdle /\ LlmIdle /\ UsageIdle /\ RegIdle /\ PgIdle

SpecRun == InitRun /\ [][NextRun]_vars

SpecRunCancel == InitRun /\ [][NextRunCancel]_vars

InitUsage == UsageStart /\ TabIdle /\ TrIdle /\ LlmIdle /\ RunIdle /\ RegIdle /\ PgIdle

SpecUsage == InitUsage /\ [][NextUsage]_vars

InitReg == RegStart /\ TabIdle /\ TrIdle /\ LlmIdle /\ RunIdle /\ UsageIdle /\ PgIdle

SpecReg == InitReg /\ [][NextReg]_vars

InitPg ==
    PgStart /\ TabIdle /\ TrIdle /\ LlmIdle /\ RunIdle /\ UsageIdle /\ RegIdle

SpecPg == InitPg /\ [][NextPg]_vars

=============================================================================
